---------------------------- MODULE Spec2Model ----------------------------
(***************************************************************************)
(* A model of JSVMP: the bytecode compiler (src/src/compiler.js), the      *)
(* constant pool (src/src/opcodes.js), the stack virtual machine           *)
(* (src/src/vm.js) and the JSVMP facade (run / compile / execute / reset / *)
(* setMaxInstructions).                                                    *)
(***************************************************************************)
EXTENDS Integers, Sequences, FiniteSets, TLC

(***************************************************************************)
(* Runtime values: a tag t and a payload v.                                *)
(***************************************************************************)
Undef == [t |-> "undef", v |-> 0]
Null == [t |-> "null", v |-> 0]
NaNV == [t |-> "nan", v |-> 0]
Num(n) == [t |-> "num", v |-> n]
Bool(b) == [t |-> "bool", v |-> b]
Str(s) == [t |-> "str", v |-> s]
Ref(id) == [t |-> "ref", v |-> id]
Host(name) == [t |-> "host", v |-> name]
GlobalThis == [t |-> "gthis", v |-> 0]
RegExpV(pattern, flags) == [t |-> "regex", v |-> <<pattern, flags>>]
FuncInfo(name, params, startAddress, closureScope) ==
    [t |-> "func",
     v |-> [name |-> name, params |-> params, startAddress |-> startAddress,
            closureScope |-> closureScope]]

NoArg == -1
NoNode == [type |-> "None"]
EmptyMap == <<>>

Has(m, k) == k \in DOMAIN m
Put(m, k, x) == IF k \in DOMAIN m THEN [m EXCEPT ![k] = x] ELSE (k :> x) @@ m
MapMerge(over, under) == over @@ under
Range(s) == {s[i] : i \in DOMAIN s}
Reverse(s) == [i \in 1..Len(s) |-> s[Len(s) + 1 - i]]

(***************************************************************************)
(* AST constructors (the Babel node shapes the compiler consumes).         *)
(***************************************************************************)
NumLit(n) == [type |-> "NumericLiteral", value |-> Num(n)]
StrLit(s) == [type |-> "StringLiteral", value |-> Str(s)]
BoolLit(b) == [type |-> "BooleanLiteral", value |-> Bool(b)]
Ident(n) == [type |-> "Identifier", name |-> n]
ThisExpr == [type |-> "ThisExpression"]
Bin(o, l, r) == [type |-> "BinaryExpression", operator |-> o, left |-> l, right |-> r]
Logical(o, l, r) == [type |-> "LogicalExpression", operator |-> o, left |-> l, right |-> r]
Unary(o, a) == [type |-> "UnaryExpression", operator |-> o, argument |-> a]
Update(o, pre, a) == [type |-> "UpdateExpression", operator |-> o, prefix |-> pre, argument |-> a]
Assign(o, l, r) == [type |-> "AssignmentExpression", operator |-> o, left |-> l, right |-> r]
Cond(t, a, b) == [type |-> "ConditionalExpression", test |-> t, consequent |-> a, alternate |-> b]
SeqExpr(es) == [type |-> "SequenceExpression", expressions |-> es]
Call(f, as) == [type |-> "CallExpression", callee |-> f, arguments |-> as]
NewExpr(f, as) == [type |-> "NewExpression", callee |-> f, arguments |-> as]
Member(o, p, comp) == [type |-> "MemberExpression", object |-> o, property |-> p, computed |-> comp]
ArrayExpr(es) == [type |-> "ArrayExpression", elements |-> es]
Prop(k, x, comp) == [key |-> k, value |-> x, computed |-> comp]
ObjectExpr(ps) == [type |-> "ObjectExpression", properties |-> ps]
FuncExpr(id, ps, body) == [type |-> "FunctionExpression", id |-> id, params |-> ps, body |-> body]
Program(body) == [type |-> "Program", body |-> body]
File(body) == [type |-> "File", program |-> Program(body)]
\* a Babel NullLiteral node has no value field: node.value is undefined
NullLit == [type |-> "NullLiteral", value |-> Undef]
RegExpLit(p, f) == [type |-> "RegExpLiteral", pattern |-> p, flags |-> f]
Block(body) == [type |-> "BlockStatement", body |-> body]
ExprStmt(e) == [type |-> "ExpressionStatement", expression |-> e]
Declarator(n, init) == [id |-> Ident(n), init |-> init]
VarDecl(ds) == [type |-> "VariableDeclaration", declarations |-> ds]
Var(n, init) == VarDecl(<<Declarator(n, init)>>)
FuncDecl(n, ps, body) == [type |-> "FunctionDeclaration", id |-> Ident(n), params |-> ps, body |-> body]
Return(a) == [type |-> "ReturnStatement", argument |-> a]
If(t, a, b) == [type |-> "IfStatement", test |-> t, consequent |-> a, alternate |-> b]
While(t, b) == [type |-> "WhileStatement", test |-> t, body |-> b]
DoWhile(b, t) == [type |-> "DoWhileStatement", body |-> b, test |-> t]
For(i, t, u, b) == [type |-> "ForStatement", init |-> i, test |-> t, update |-> u, body |-> b]
ForIn(l, r, b) == [type |-> "ForInStatement", left |-> l, right |-> r, body |-> b]
Case(t, cs) == [test |-> t, consequent |-> cs]
Switch(d, cs) == [type |-> "SwitchStatement", discriminant |-> d, cases |-> cs]
Break == [type |-> "BreakStatement"]
Continue == [type |-> "ContinueStatement"]
Throw(a) == [type |-> "ThrowStatement", argument |-> a]
CatchClause(p, b) == [param |-> p, body |-> b]
Try(b, h, f) == [type |-> "TryStatement", block |-> b, handler |-> h, finalizer |-> f]
WithStmt == [type |-> "WithStatement"]
\* var {...} = init: the declarator's id is an ObjectPattern node, which has no name
ObjectPattern == [type |-> "ObjectPattern"]
PatternDeclarator(pattern, init) == [id |-> pattern, init |-> init]

\* node.name: undefined when the node has no such field.  NoName stands for the
\* value undefined where the source uses it as a name (a Map key); it is not the
\* string 'undefined'
NoName == "(undefined)"
nameOf(node) == IF "name" \in DOMAIN node THEN node.name ELSE NoName
nameConstant(name) == IF name = NoName THEN Undef ELSE Str(name)
keyOf(constant) == IF constant.t = "undef" THEN NoName ELSE constant.v


(***************************************************************************)
(* Constant pool (opcodes.js).  Indices are 0-based as in the source; the  *)
(* deduplication map is keyed by the primitive itself, or by its JSON text *)
(* when typeof value is "object": "null" for null, "{}" for a RegExp.      *)
(***************************************************************************)
ConstantPoolNew == [constants |-> <<>>, indices |-> EmptyMap]

DedupKey(value) ==
    IF value.t = "null" THEN Str("null")
    ELSE IF value.t = "regex" THEN Str("{}")
    ELSE value

ConstantPoolIndex(pool, value) ==
    IF value.t = "func" THEN Len(pool.constants)
    ELSE IF Has(pool.indices, DedupKey(value)) THEN pool.indices[DedupKey(value)]
    ELSE Len(pool.constants)

ConstantPoolAdd(pool, value) ==
    IF value.t = "func"
    THEN [pool EXCEPT !.constants = Append(@, value)]
    ELSE IF Has(pool.indices, DedupKey(value)) THEN pool
    ELSE [constants |-> Append(pool.constants, value),
          indices |-> Put(pool.indices, DedupKey(value), Len(pool.constants))]

ConstantPoolGet(pool, index) == pool.constants[index + 1]

(***************************************************************************)
(* Compiler instance state (compiler.js).  ok = FALSE once a compile       *)
(* function has thrown: the rest of the compilation is skipped and the     *)
(* fields keep the values they had at the throw.  pending is the set of    *)
(* addresses of jumps emitted with the placeholder operand 0 and not yet   *)
(* patched.  nest, ends, continuePoints and exits are not fields of the    *)
(* source's Compiler: they record the loop and switch statements open at   *)
(* the point of compilation (innermost last, numbered in order of entry),  *)
(* the address following each statement, the address of each loop's        *)
(* continue point, and for each break/continue the address of its jump and *)
(* the innermost statement of the right kind open where it was compiled,   *)
(* 0 when none.  The compile functions read none of them.  sourceCode is   *)
(* the source text handed to compile, named by its place in the program    *)
(* library (0 before the first compilation).                               *)
(***************************************************************************)
CompilerNew ==
    [ins |-> <<>>, pool |-> ConstantPoolNew, scopes |-> <<{}>>, currentScope |-> 0,
     loopStack |-> <<>>, switchStack |-> <<>>, sourceCode |-> 0, ok |-> TRUE,
     pending |-> {}, nest |-> <<>>, ends |-> <<>>, continuePoints |-> <<>>, exits |-> {}]

getCurrentAddress(c) == Len(c.ins)

addInstruction(c, opcode, operand) ==
    IF ~c.ok THEN c ELSE [c EXCEPT !.ins = Append(@, [op |-> opcode, arg |-> operand])]

addPlaceholder(c, opcode) ==
    IF ~c.ok THEN c
    ELSE [c EXCEPT !.ins = Append(@, [op |-> opcode, arg |-> 0]),
                   !.pending = @ \cup {Len(c.ins)}]

patchInstructionDropped(c, address, operand) == c

patchInstruction(c, address, operand) ==
    IF ~c.ok THEN c
    ELSE [c EXCEPT !.ins[address + 1].arg = operand, !.pending = @ \ {address}]

patchAll(c, targets, operand) ==
    IF ~c.ok THEN c
    ELSE [c EXCEPT !.ins = [i \in DOMAIN c.ins |->
                               IF (i - 1) \in Range(targets)
                               THEN [c.ins[i] EXCEPT !.arg = operand] ELSE c.ins[i]],
                   !.pending = @ \ Range(targets)]

addConstant(c, value) == IF ~c.ok THEN c ELSE [c EXCEPT !.pool = ConstantPoolAdd(@, value)]
constantIndex(c, value) == ConstantPoolIndex(c.pool, value)

addConstInstruction(c, opcode, value) ==
    addInstruction(addConstant(c, value), opcode, constantIndex(c, value))

throwError(c) == [c EXCEPT !.ok = FALSE]

enterScope(c) ==
    IF ~c.ok THEN c
    ELSE [c EXCEPT !.scopes = Append(@, {}), !.currentScope = @ + 1]

exitScope(c) ==
    IF ~c.ok THEN c
    ELSE [c EXCEPT !.scopes = SubSeq(@, 1, Len(@) - 1), !.currentScope = @ - 1]

declareVariable(c, name) ==
    IF ~c.ok THEN c
    ELSE [c EXCEPT !.scopes[c.currentScope + 1] = @ \cup {name}]

\* name -> the scope index recorded for it; a later scope overwrites an earlier one
captureClosure(c) ==
    LET depth == IF c.currentScope + 1 <= Len(c.scopes) THEN c.currentScope + 1 ELSE Len(c.scopes)
        names == UNION {c.scopes[i] : i \in 1..depth}
    IN [n \in names |-> CHOOSE i \in 0..(depth - 1) :
                            /\ n \in c.scopes[i + 1]
                            /\ \A j \in 0..(depth - 1) : n \in c.scopes[j + 1] => j <= i]

\* the ops tables of compileBinaryExpression, compileAssignmentExpression and
\* compileUnaryExpression
BinaryOps ==
    ("+" :> "ADD") @@ ("-" :> "SUB") @@ ("*" :> "MUL") @@ ("/" :> "DIV") @@ ("%" :> "MOD") @@
    ("==" :> "EQ") @@ ("===" :> "EQ") @@ ("!=" :> "NE") @@ ("!==" :> "NE") @@
    ("<" :> "LT") @@ ("<=" :> "LE") @@ (">" :> "GT") @@ (">=" :> "GE") @@
    ("<<" :> "SHL") @@ (">>" :> "SHR") @@ (">>>" :> "USHR") @@
    ("&" :> "BIT_AND") @@ ("|" :> "BIT_OR") @@ ("^" :> "BIT_XOR")

CompoundOps ==
    ("+" :> "ADD") @@ ("-" :> "SUB") @@ ("*" :> "MUL") @@ ("/" :> "DIV") @@ ("%" :> "MOD") @@
    ("<<" :> "SHL") @@ (">>" :> "SHR") @@ (">>>" :> "USHR") @@
    ("&" :> "BIT_AND") @@ ("|" :> "BIT_OR") @@ ("^" :> "BIT_XOR")

\* node.operator.slice(0, -1) on the compound assignment operators
binaryOpOf ==
    ("+=" :> "+") @@ ("-=" :> "-") @@ ("*=" :> "*") @@ ("/=" :> "/") @@ ("%=" :> "%") @@
    ("<<=" :> "<<") @@ (">>=" :> ">>") @@ (">>>=" :> ">>>") @@
    ("&=" :> "&") @@ ("|=" :> "|") @@ ("^=" :> "^") @@
    ("**=" :> "**") @@ ("&&=" :> "&&") @@ ("||=" :> "||") @@ ("??=" :> "??")

UnaryOps == ("-" :> "NEG") @@ ("!" :> "NOT") @@ ("~" :> "BIT_NOT") @@ ("typeof" :> "TYPEOF")

RECURSIVE compileNode(_, _)
RECURSIVE compileProgramFrom(_, _, _)
RECURSIVE compileBlockFrom(_, _, _)
RECURSIVE compileArgsFrom(_, _, _)
RECURSIVE compileSequenceFrom(_, _, _)
RECURSIVE compileElementsFrom(_, _, _)
RECURSIVE compilePropertiesFrom(_, _, _)
RECURSIVE compileDeclaratorsFrom(_, _, _)
RECURSIVE compileStatementsFrom(_, _, _)
RECURSIVE switchTestsFrom(_, _, _)
RECURSIVE switchBodiesFrom(_, _, _)

compileProgramFrom(node, i, c) ==
    IF i > Len(node.body) THEN c
    ELSE LET statement == node.body[i]
             c1 == compileNode(statement, c)
             c2 == IF i < Len(node.body) /\ statement.type = "ExpressionStatement"
                   THEN addInstruction(c1, "POP", NoArg) ELSE c1
         IN compileProgramFrom(node, i + 1, c2)

compileProgramPopping(node, c) == compileBlockFrom(node, 1, c)

compileProgram(node, c) == compileProgramFrom(node, 1, c)

compileExpressionStatement(node, c) == compileNode(node.expression, c)

compileBlockFrom(node, i, c) ==
    IF i > Len(node.body) THEN c
    ELSE LET statement == node.body[i]
             c1 == compileNode(statement, c)
             c2 == IF statement.type = "ExpressionStatement"
                   THEN addInstruction(c1, "POP", NoArg) ELSE c1
         IN compileBlockFrom(node, i + 1, c2)

compileBlockStatement(node, c) == exitScope(compileBlockFrom(node, 1, enterScope(c)))

compileLiteral(node, c) == addConstInstruction(c, "PUSH", node.value)

compileRegExpLiteral(node, c) ==
    addConstInstruction(c, "PUSH", RegExpV(node.pattern, node.flags))

compileIdentifier(node, c) == addConstInstruction(c, "LOAD", Str(node.name))

compileThisExpression(node, c) == addConstInstruction(c, "LOAD", Str("this"))

compileBinaryExpression(node, c) ==
    LET c1 == compileNode(node.right, compileNode(node.left, c))
    IN IF node.operator \in DOMAIN BinaryOps
       THEN addInstruction(c1, BinaryOps[node.operator], NoArg)
       ELSE throwError(c1)

compileLogicalExpressionSwapped(node, c) ==
    LET c1 == compileNode(node.left, c)
    IN IF node.operator \in {"&&", "||"}
       THEN LET c2 == addInstruction(c1, "DUP", NoArg)
                skipJump == getCurrentAddress(c2)
                c3 == addPlaceholder(c2, IF node.operator = "&&" THEN "JIF" ELSE "JNF")
                c4 == addInstruction(c3, "POP", NoArg)
                c5 == compileNode(node.right, c4)
            IN patchInstruction(c5, skipJump, getCurrentAddress(c5))
       ELSE throwError(c1)

compileLogicalExpression(node, c) ==
    LET c1 == compileNode(node.left, c)
    IN IF node.operator \in {"&&", "||"}
       THEN LET c2 == addInstruction(c1, "DUP", NoArg)
                skipJump == getCurrentAddress(c2)
                c3 == addPlaceholder(c2, IF node.operator = "&&" THEN "JNF" ELSE "JIF")
                c4 == addInstruction(c3, "POP", NoArg)
                c5 == compileNode(node.right, c4)
            IN patchInstruction(c5, skipJump, getCurrentAddress(c5))
       ELSE throwError(c1)

compileUnaryExpression(node, c) ==
    LET c1 == compileNode(node.argument, c)
    IN IF node.operator \in DOMAIN UnaryOps
       THEN addInstruction(c1, UnaryOps[node.operator], NoArg)
       ELSE IF node.operator = "void"
       THEN addConstInstruction(addInstruction(c1, "POP", NoArg), "PUSH", Undef)
       ELSE IF node.operator = "delete"
       THEN addConstInstruction(addInstruction(c1, "POP", NoArg), "PUSH", Bool(TRUE))
       ELSE throwError(c1)

\* the store-back half shared by member targets: object, key, SET_PROP
compileMemberStore(memberExpr, c) ==
    LET c1 == compileNode(memberExpr.object, c)
    IN IF memberExpr.computed
       THEN addInstruction(compileNode(memberExpr.property, c1), "SET_PROP", NoArg)
       ELSE addInstruction(addConstInstruction(c1, "PUSH", Str(memberExpr.property.name)),
                           "SET_PROP", NoArg)

compileUpdateExpression(node, c) ==
    LET arith == IF node.operator = "++" THEN "ADD" ELSE "SUB"
    IN IF node.argument.type = "Identifier"
       THEN LET c0 == addConstant(c, Str(node.argument.name))
                nameIndex == constantIndex(c0, Str(node.argument.name))
                c1 == addInstruction(c0, "LOAD", nameIndex)
            IN IF node.prefix
               THEN LET c2 == addConstInstruction(c1, "PUSH", Num(1))
                        c3 == addInstruction(c2, arith, NoArg)
                        c4 == addInstruction(c3, "DUP", NoArg)
                    IN addInstruction(c4, "STORE", nameIndex)
               ELSE LET c2 == addInstruction(c1, "DUP", NoArg)
                        c3 == addConstInstruction(c2, "PUSH", Num(1))
                        c4 == addInstruction(c3, arith, NoArg)
                    IN addInstruction(c4, "STORE", nameIndex)
       ELSE IF node.argument.type = "MemberExpression"
       THEN LET c1 == compileNode(node.argument, c)
            IN IF node.prefix
               THEN LET c2 == addConstInstruction(c1, "PUSH", Num(1))
                        c3 == addInstruction(c2, arith, NoArg)
                        c4 == addInstruction(c3, "DUP", NoArg)
                    IN addInstruction(compileMemberStore(node.argument, c4), "POP", NoArg)
               ELSE LET c2 == addInstruction(c1, "DUP", NoArg)
                        c3 == addConstInstruction(c2, "PUSH", Num(1))
                        c4 == addInstruction(c3, arith, NoArg)
                    IN addInstruction(compileMemberStore(node.argument, c4), "POP", NoArg)
       ELSE throwError(c)

compileAssignmentExpression(node, c) ==
    IF node.operator # "="
    THEN IF node.left.type \in {"Identifier", "MemberExpression"}
         THEN LET binaryOp == binaryOpOf[node.operator]
                  c1 == compileNode(node.right, compileNode(node.left, c))
              IN IF binaryOp \in DOMAIN CompoundOps
                 THEN LET c2 == addInstruction(c1, CompoundOps[binaryOp], NoArg)
                      IN IF node.left.type = "Identifier"
                         THEN LET c3 == addConstant(c2, Str(node.left.name))
                                  c4 == addInstruction(c3, "DUP", NoArg)
                              IN addInstruction(c4, "STORE", constantIndex(c3, Str(node.left.name)))
                         ELSE compileMemberStore(node.left, c2)
                 ELSE throwError(c1)
         ELSE throwError(c)
    ELSE LET c1 == compileNode(node.right, c)
         IN IF node.left.type = "Identifier"
            THEN LET c2 == addConstant(c1, Str(node.left.name))
                     c3 == addInstruction(c2, "DUP", NoArg)
                 IN addInstruction(c3, "STORE", constantIndex(c2, Str(node.left.name)))
            ELSE IF node.left.type = "MemberExpression"
            THEN compileMemberStore(node.left, c1)
            ELSE throwError(c1)

compileConditionalExpression(node, c) ==
    LET c1 == compileNode(node.test, c)
        falseJump == getCurrentAddress(c1)
        c2 == addPlaceholder(c1, "JNF")
        c3 == compileNode(node.consequent, c2)
        endJump == getCurrentAddress(c3)
        c4 == addPlaceholder(c3, "JMP")
        c5 == patchInstruction(c4, falseJump, getCurrentAddress(c4))
        c6 == compileNode(node.alternate, c5)
    IN patchInstruction(c6, endJump, getCurrentAddress(c6))

compileSequenceFrom(node, i, c) ==
    IF i > Len(node.expressions) THEN c
    ELSE LET c1 == compileNode(node.expressions[i], c)
             c2 == IF i < Len(node.expressions) THEN addInstruction(c1, "POP", NoArg) ELSE c1
         IN compileSequenceFrom(node, i + 1, c2)

compileSequenceExpression(node, c) == compileSequenceFrom(node, 1, c)

\* arguments are compiled from the last one down to the first
compileArgsFrom(args, i, c) ==
    IF i < 1 THEN c ELSE compileArgsFrom(args, i - 1, compileNode(args[i], c))

compileCallExpression(node, c) ==
    LET c1 == compileArgsFrom(node.arguments, Len(node.arguments), c)
        argc == Num(Len(node.arguments))
    IN IF node.callee.type = "MemberExpression"
       THEN LET c2 == addInstruction(compileNode(node.callee.object, c1), "DUP", NoArg)
                c3 == IF node.callee.computed
                      THEN compileNode(node.callee.property, c2)
                      ELSE addConstInstruction(c2, "PUSH", Str(node.callee.property.name))
                c4 == addInstruction(c3, "GET_PROP", NoArg)
            IN addConstInstruction(c4, "CALL_METHOD", argc)
       ELSE addConstInstruction(compileNode(node.callee, c1), "CALL", argc)

compileNewExpression(node, c) ==
    LET c1 == compileArgsFrom(node.arguments, Len(node.arguments), c)
    IN addConstInstruction(compileNode(node.callee, c1), "NEW", Num(Len(node.arguments)))

compileMemberExpression(node, c) ==
    LET c1 == compileNode(node.object, c)
        c2 == IF node.computed
              THEN compileNode(node.property, c1)
              ELSE addConstInstruction(c1, "PUSH", Str(node.property.name))
    IN addInstruction(c2, "GET_PROP", NoArg)

compileElementsFrom(node, i, c) ==
    IF i > Len(node.elements) THEN c
    ELSE LET element == node.elements[i]
             c1 == IF element # NoNode THEN compileNode(element, c)
                   ELSE addConstInstruction(c, "PUSH", Undef)
         IN compileElementsFrom(node, i + 1, c1)

compileArrayExpression(node, c) ==
    LET c1 == compileElementsFrom(node, 1, c)
    IN addInstruction(addConstInstruction(c1, "PUSH", Num(Len(node.elements))), "NEW_ARR", NoArg)

compilePropertiesFrom(node, i, c) ==
    IF i > Len(node.properties) THEN c
    ELSE LET property == node.properties[i]
             c1 == compileNode(property.value, c)
             c2 == IF property.key.type = "Identifier" /\ ~property.computed
                   THEN addConstInstruction(c1, "PUSH", Str(property.key.name))
                   ELSE compileNode(property.key, c1)
         IN compilePropertiesFrom(node, i + 1, c2)

compileObjectExpression(node, c) ==
    LET c1 == compilePropertiesFrom(node, 1, c)
    IN addInstruction(addConstInstruction(c1, "PUSH", Num(Len(node.properties))), "NEW_OBJ", NoArg)

compileDeclaratorsFrom(node, i, c) ==
    IF i > Len(node.declarations) THEN c
    ELSE LET declarator == node.declarations[i]
             varName == nameOf(declarator.id)
             c1 == declareVariable(c, varName)
             c2 == IF declarator.init # NoNode THEN compileNode(declarator.init, c1)
                   ELSE addConstInstruction(c1, "PUSH", Undef)
         IN compileDeclaratorsFrom(node, i + 1,
                addConstInstruction(c2, "DECLARE", nameConstant(varName)))

compileVariableDeclaration(node, c) == compileDeclaratorsFrom(node, 1, c)

declareParams(c, params) ==
    IF ~c.ok THEN c ELSE [c EXCEPT !.scopes[c.currentScope + 1] = @ \cup Range(params)]

\* the part shared by function declarations and expressions: JMP over the body,
\* the body, PUSH undefined; RET, the patched JMP, PUSH of the function constant
compileFunctionBody(node, funcName, selfName, c) ==
    LET jumpIndex == getCurrentAddress(c)
        c1 == addPlaceholder(c, "JMP")
        funcInfo == FuncInfo(funcName, node.params, getCurrentAddress(c1), captureClosure(c1))
        c2 == enterScope(c1)
        c3 == IF selfName # "" THEN declareVariable(c2, selfName) ELSE c2
        c4 == compileNode(node.body, declareParams(c3, node.params))
        c5 == addInstruction(addConstInstruction(c4, "PUSH", Undef), "RET", NoArg)
        c6 == exitScope(c5)
        c7 == patchInstruction(c6, jumpIndex, getCurrentAddress(c6))
    IN addConstInstruction(c7, "PUSH", funcInfo)

compileFunctionDeclaration(node, c) ==
    addConstInstruction(compileFunctionBody(node, node.id.name, "", c),
                        "DECLARE", Str(node.id.name))

compileFunctionExpression(node, c) ==
    IF node.id # NoNode
    THEN compileFunctionBody(node, node.id.name, node.id.name, c)
    ELSE compileFunctionBody(node, "", "", c)

compileReturnStatement(node, c) ==
    LET c1 == IF node.argument # NoNode THEN compileNode(node.argument, c)
              ELSE addConstInstruction(c, "PUSH", Undef)
    IN addInstruction(c1, "RET", NoArg)

compileIfStatement(node, c) ==
    LET c1 == compileNode(node.test, c)
        elseJump == getCurrentAddress(c1)
        c2 == addPlaceholder(c1, "JNF")
        c3 == compileNode(node.consequent, c2)
    IN IF node.alternate # NoNode
       THEN LET endJump == getCurrentAddress(c3)
                c4 == addPlaceholder(c3, "JMP")
                c5 == patchInstruction(c4, elseJump, getCurrentAddress(c4))
                c6 == compileNode(node.alternate, c5)
            IN patchInstruction(c6, endJump, getCurrentAddress(c6))
       ELSE patchInstruction(c3, elseJump, getCurrentAddress(c3))

LoopContext(type) == [type |-> type, breakTargets |-> <<>>, continueTargets |-> <<>>]

\* the records kept beside the compilation: a loop or switch statement is entered,
\* the continue point of the innermost open statement is reached, the innermost
\* open statement is left
entered(c, kind) ==
    [c EXCEPT !.nest = Append(@, [id |-> Len(c.ends) + 1, kind |-> kind]),
              !.ends = Append(@, -1), !.continuePoints = Append(@, -1)]
atContinuePoint(c) ==
    IF ~c.ok THEN c
    ELSE [c EXCEPT !.continuePoints[c.nest[Len(c.nest)].id] = getCurrentAddress(c)]
left(c) ==
    [c EXCEPT !.ends[c.nest[Len(c.nest)].id] = getCurrentAddress(c),
              !.nest = SubSeq(@, 1, Len(@) - 1)]
\* the innermost open statement whose kind is in kinds, 0 when none is open
innermost(c, kinds) ==
    LET open == {i \in DOMAIN c.nest : c.nest[i].kind \in kinds}
    IN IF open = {} THEN 0 ELSE c.nest[CHOOSE i \in open : \A j \in open : j <= i].id
exit(c, kind, address, kinds) ==
    IF ~c.ok THEN c
    ELSE [c EXCEPT !.exits = @ \cup {[kind |-> kind, address |-> address, of |-> innermost(c, kinds)]}]

pushLoop(c, type) ==
    IF ~c.ok THEN c ELSE entered([c EXCEPT !.loopStack = Append(@, LoopContext(type))], "loop")
popLoop(c) == IF ~c.ok THEN c ELSE left([c EXCEPT !.loopStack = SubSeq(@, 1, Len(@) - 1)])
\* the loop context a compile function holds a reference to: the one it pushed,
\* at depth d of the loop stack
loopAt(c, d) == IF d <= Len(c.loopStack) THEN c.loopStack[d] ELSE LoopContext("none")
addLoopBreak(c, d, address) ==
    IF ~c.ok THEN c ELSE [c EXCEPT !.loopStack[d].breakTargets = Append(@, address)]

compileWhileStatement(node, c) ==
    LET loopStart == getCurrentAddress(c)
        c1 == pushLoop(c, "while")
        d == Len(c1.loopStack)
        c2 == compileNode(node.test, c1)
        exitJump == getCurrentAddress(c2)
        c3 == addLoopBreak(addPlaceholder(c2, "JNF"), d, exitJump)
        c4 == compileNode(node.body, c3)
        c5 == atContinuePoint(patchAll(c4, loopAt(c4, d).continueTargets, getCurrentAddress(c4)))
        c6 == addInstruction(c5, "JMP", loopStart)
        c7 == patchAll(c6, loopAt(c6, d).breakTargets, getCurrentAddress(c6))
    IN popLoop(c7)

compileDoWhileStatement(node, c) ==
    LET loopStart == getCurrentAddress(c)
        c1 == pushLoop(c, "do-while")
        d == Len(c1.loopStack)
        c2 == compileNode(node.body, c1)
        c3 == atContinuePoint(patchAll(c2, loopAt(c2, d).continueTargets, getCurrentAddress(c2)))
        c4 == addInstruction(compileNode(node.test, c3), "JIF", loopStart)
        c5 == patchAll(c4, loopAt(c4, d).breakTargets, getCurrentAddress(c4))
    IN popLoop(c5)

compileForStatement(node, c) ==
    LET c1 == pushLoop(enterScope(c), "for")
        d == Len(c1.loopStack)
        c2 == IF node.init # NoNode
              THEN LET ci == compileNode(node.init, c1)
                   IN IF node.init.type # "VariableDeclaration"
                      THEN addInstruction(ci, "POP", NoArg) ELSE ci
              ELSE c1
        loopStart == getCurrentAddress(c2)
        c3 == IF node.test # NoNode
              THEN LET ct == compileNode(node.test, c2)
                   IN addLoopBreak(addPlaceholder(ct, "JNF"), d, getCurrentAddress(ct))
              ELSE c2
        c4 == compileNode(node.body, c3)
        c5 == atContinuePoint(patchAll(c4, loopAt(c4, d).continueTargets, getCurrentAddress(c4)))
        c6 == IF node.update # NoNode
              THEN addInstruction(compileNode(node.update, c5), "POP", NoArg) ELSE c5
        c7 == addInstruction(c6, "JMP", loopStart)
        c8 == patchAll(c7, loopAt(c7, d).breakTargets, getCurrentAddress(c7))
    IN exitScope(popLoop(c8))

compileForInStatement(node, c) ==
    LET c1 == pushLoop(enterScope(c), "for-in")
        d == Len(c1.loopStack)
        c2 == compileNode(node.right, c1)
        c3 == addConstInstruction(c2, "LOAD", Str("Object"))
        c4 == addInstruction(addConstInstruction(c3, "PUSH", Str("keys")), "GET_PROP", NoArg)
        c5 == addConstInstruction(c4, "CALL", Num(1))
    IN IF ~c5.ok THEN c5 ELSE
    LET c6 == addConstInstruction(declareVariable(c5, "__for_in_index__"), "PUSH", Num(0))
        c7 == addConstInstruction(c6, "DECLARE", Str("__for_in_index__"))
        c8 == addInstruction(declareVariable(c7, "__for_in_length__"), "DUP", NoArg)
        c9 == addInstruction(addConstInstruction(c8, "PUSH", Str("length")), "GET_PROP", NoArg)
        c10 == addConstInstruction(c9, "DECLARE", Str("__for_in_length__"))
        c11 == addConstInstruction(declareVariable(c10, "__for_in_keys__"),
                                   "DECLARE", Str("__for_in_keys__"))
    IN IF ~c11.ok THEN c11 ELSE
    LET loopStart == getCurrentAddress(c11)
        c12 == addConstInstruction(c11, "LOAD", Str("__for_in_index__"))
        c13 == addInstruction(addConstInstruction(c12, "LOAD", Str("__for_in_length__")),
                              "LT", NoArg)
        exitJump == getCurrentAddress(c13)
        c14 == addLoopBreak(addPlaceholder(c13, "JNF"), d, exitJump)
        c15 == addConstInstruction(c14, "LOAD", Str("__for_in_keys__"))
        c16 == addInstruction(addConstInstruction(c15, "LOAD", Str("__for_in_index__")),
                              "GET_ELEM", NoArg)
        c17 == IF node.left.type = "VariableDeclaration"
               THEN LET varName == node.left.declarations[1].id.name
                    IN addConstInstruction(declareVariable(c16, varName), "DECLARE", Str(varName))
               ELSE addConstInstruction(c16, "STORE", Str(node.left.name))
    IN IF ~c17.ok THEN c17 ELSE
    LET c18 == compileNode(node.body, c17)
    IN IF ~c18.ok THEN c18 ELSE
    LET c19 == atContinuePoint(patchAll(c18, loopAt(c18, d).continueTargets,
                                        getCurrentAddress(c18)))
        c20 == addConstInstruction(c19, "LOAD", Str("__for_in_index__"))
        c21 == addInstruction(addConstInstruction(c20, "PUSH", Num(1)), "ADD", NoArg)
        c22 == addConstInstruction(c21, "STORE", Str("__for_in_index__"))
        c23 == addInstruction(c22, "JMP", loopStart)
        c24 == patchAll(c23, loopAt(c23, d).breakTargets, getCurrentAddress(c23))
    IN exitScope(popLoop(c24))

\* first loop of compileSwitchStatement: st = [c, caseJumps, defaultJump]
switchTestsFrom(node, i, st) ==
    IF i > Len(node.cases) THEN st
    ELSE LET caseNode == node.cases[i]
         IN IF caseNode.test # NoNode
            THEN LET c1 == addInstruction(st.c, "DUP", NoArg)
                     c2 == addInstruction(compileNode(caseNode.test, c1), "EQ", NoArg)
                     jumpIndex == getCurrentAddress(c2)
                     c3 == addPlaceholder(c2, "JIF")
                 IN switchTestsFrom(node, i + 1,
                        [st EXCEPT !.c = c3,
                                   !.caseJumps = Append(@, [jumpIndex |-> jumpIndex, caseIndex |-> i])])
            ELSE switchTestsFrom(node, i + 1, [st EXCEPT !.defaultJump = i])

compileStatementsFrom(statements, i, c) ==
    IF i > Len(statements) THEN c
    ELSE compileStatementsFrom(statements, i + 1, compileNode(statements[i], c))

\* second loop of compileSwitchStatement: st = [c, caseAddresses]
switchBodiesFrom(node, i, st) ==
    IF i > Len(node.cases) THEN st
    ELSE switchBodiesFrom(node, i + 1,
            [c |-> compileStatementsFrom(node.cases[i].consequent, 1, st.c),
             caseAddresses |-> Append(st.caseAddresses, getCurrentAddress(st.c))])

RECURSIVE patchCaseJumps(_, _, _, _)
patchCaseJumps(c, caseJumps, caseAddresses, i) ==
    IF i > Len(caseJumps) THEN c
    ELSE patchCaseJumps(patchInstruction(c, caseJumps[i].jumpIndex,
                                         caseAddresses[caseJumps[i].caseIndex]),
                        caseJumps, caseAddresses, i + 1)

compileSwitchStatement(node, c) ==
    LET c1 == compileNode(node.discriminant, c)
        c2 == IF ~c1.ok THEN c1
              ELSE entered([c1 EXCEPT !.switchStack = Append(@, [breakTargets |-> <<>>])],
                           "switch")
        d == Len(c2.switchStack)
        t == switchTestsFrom(node, 1, [c |-> c2, caseJumps |-> <<>>, defaultJump |-> 0])
        c3 == addInstruction(t.c, "POP", NoArg)
        noMatchJump == getCurrentAddress(c3)
        c4 == addPlaceholder(c3, "JMP")
        b == switchBodiesFrom(node, 1, [c |-> c4, caseAddresses |-> <<>>])
        c5 == IF ~b.c.ok THEN b.c ELSE patchCaseJumps(b.c, t.caseJumps, b.caseAddresses, 1)
        c6 == IF t.defaultJump # 0
              THEN patchInstruction(c5, noMatchJump,
                       IF c5.ok THEN b.caseAddresses[t.defaultJump] ELSE 0)
              ELSE patchInstruction(c5, noMatchJump, getCurrentAddress(c5))
        c7 == IF ~c6.ok THEN c6
              ELSE patchAll(c6, c6.switchStack[d].breakTargets, getCurrentAddress(c6))
    IN IF ~c7.ok THEN c7 ELSE left([c7 EXCEPT !.switchStack = SubSeq(@, 1, Len(@) - 1)])

compileBreakStatement(node, c) ==
    LET jumpIndex == getCurrentAddress(c)
        c1 == exit(addPlaceholder(c, "JMP"), "break", jumpIndex, {"loop", "switch"})
    IN IF ~c1.ok THEN c1
       ELSE IF Len(c1.switchStack) > 0
       THEN [c1 EXCEPT !.switchStack[Len(c1.switchStack)].breakTargets = Append(@, jumpIndex)]
       ELSE IF Len(c1.loopStack) > 0
       THEN [c1 EXCEPT !.loopStack[Len(c1.loopStack)].breakTargets = Append(@, jumpIndex)]
       ELSE throwError(c1)

compileContinueStatement(node, c) ==
    LET jumpIndex == getCurrentAddress(c)
        c1 == exit(addPlaceholder(c, "JMP"), "continue", jumpIndex, {"loop"})
    IN IF ~c1.ok THEN c1
       ELSE IF Len(c1.loopStack) > 0
       THEN [c1 EXCEPT !.loopStack[Len(c1.loopStack)].continueTargets = Append(@, jumpIndex)]
       ELSE throwError(c1)

compileThrowStatement(node, c) == addInstruction(compileNode(node.argument, c), "THROW", NoArg)

compileCatchClause(handler, c) ==
    LET c1 == IF handler.param # ""
              THEN addConstInstruction(declareVariable(c, handler.param), "STORE", Str(handler.param))
              ELSE c
    IN compileNode(handler.body, c1)

compileTryStatement(node, c) ==
    LET c1 == compileNode(node.block, addInstruction(c, "TRY", NoArg))
        c2 == IF node.handler # NoNode
              THEN compileCatchClause(node.handler, addInstruction(c1, "CATCH", NoArg))
              ELSE c1
        c3 == IF node.finalizer # NoNode
              THEN compileNode(node.finalizer, addInstruction(c2, "FINALLY", NoArg))
              ELSE c2
    IN addInstruction(c3, "END_TRY", NoArg)

compileNode(node, c) ==
    IF ~c.ok \/ node = NoNode THEN c
    ELSE CASE node.type = "Program" -> compileProgram(node, c)
           [] node.type = "BlockStatement" -> compileBlockStatement(node, c)
           [] node.type = "ExpressionStatement" -> compileExpressionStatement(node, c)
           [] node.type = "VariableDeclaration" -> compileVariableDeclaration(node, c)
           [] node.type = "FunctionDeclaration" -> compileFunctionDeclaration(node, c)
           [] node.type = "ReturnStatement" -> compileReturnStatement(node, c)
           [] node.type = "IfStatement" -> compileIfStatement(node, c)
           [] node.type = "WhileStatement" -> compileWhileStatement(node, c)
           [] node.type = "DoWhileStatement" -> compileDoWhileStatement(node, c)
           [] node.type = "ForStatement" -> compileForStatement(node, c)
           [] node.type = "ForInStatement" -> compileForInStatement(node, c)
           [] node.type = "SwitchStatement" -> compileSwitchStatement(node, c)
           [] node.type = "BreakStatement" -> compileBreakStatement(node, c)
           [] node.type = "ContinueStatement" -> compileContinueStatement(node, c)
           [] node.type = "ThrowStatement" -> compileThrowStatement(node, c)
           [] node.type = "TryStatement" -> compileTryStatement(node, c)
           [] node.type = "File" -> compileNode(node.program, c)
           [] node.type \in {"Literal", "NumericLiteral", "StringLiteral", "BooleanLiteral",
                             "NullLiteral"} ->
                compileLiteral(node, c)
           [] node.type = "RegExpLiteral" -> compileRegExpLiteral(node, c)
           [] node.type = "Identifier" -> compileIdentifier(node, c)
           [] node.type = "ThisExpression" -> compileThisExpression(node, c)
           [] node.type = "BinaryExpression" -> compileBinaryExpression(node, c)
           [] node.type = "LogicalExpression" -> compileLogicalExpression(node, c)
           [] node.type = "UnaryExpression" -> compileUnaryExpression(node, c)
           [] node.type = "UpdateExpression" -> compileUpdateExpression(node, c)
           [] node.type = "AssignmentExpression" -> compileAssignmentExpression(node, c)
           [] node.type = "ConditionalExpression" -> compileConditionalExpression(node, c)
           [] node.type = "SequenceExpression" -> compileSequenceExpression(node, c)
           [] node.type = "CallExpression" -> compileCallExpression(node, c)
           [] node.type = "NewExpression" -> compileNewExpression(node, c)
           [] node.type = "MemberExpression" -> compileMemberExpression(node, c)
           [] node.type = "ArrayExpression" -> compileArrayExpression(node, c)
           [] node.type = "ObjectExpression" -> compileObjectExpression(node, c)
           [] node.type = "FunctionExpression" -> compileFunctionExpression(node, c)
           [] OTHER -> throwError(c)

\* Compiler.compile: every per-compilation field of the instance is set anew,
\* whatever the previous compilation left in it
compileKeepingStacks(this, ast, sourceCode) ==
    LET fresh == [this EXCEPT !.ins = <<>>, !.pool = ConstantPoolNew, !.scopes = <<{}>>,
                              !.currentScope = 0, !.sourceCode = sourceCode,
                              !.ok = TRUE, !.pending = {}, !.nest = <<>>, !.ends = <<>>,
                              !.continuePoints = <<>>, !.exits = {}]
    IN addInstruction(compileNode(ast, fresh), "HALT", NoArg)

compile(this, ast, sourceCode) ==
    LET fresh == [this EXCEPT !.ins = <<>>, !.pool = ConstantPoolNew, !.scopes = <<{}>>,
                              !.currentScope = 0, !.loopStack = <<>>, !.switchStack = <<>>,
                              !.sourceCode = sourceCode, !.ok = TRUE, !.pending = {},
                              !.nest = <<>>, !.ends = <<>>, !.continuePoints = <<>>,
                              !.exits = {}]
    IN addInstruction(compileNode(ast, fresh), "HALT", NoArg)


(***************************************************************************)
(* Virtual machine (vm.js).  The object heap is a sequence; Ref(i) is the  *)
(* object heap[i].  Kinds of heap object: a user function object "fn"      *)
(* (env and closureId are 0 while _closureEnv and _closureId are not set), *)
(* a closure Map "env", a plain object "obj", an array "arr".              *)
(***************************************************************************)
DefaultMaxInstructions == 200000

BuiltinHostNames ==
    {"console", "Math", "parseInt", "parseFloat", "isNaN", "isFinite",
     "encodeURIComponent", "decodeURIComponent", "encodeURI", "decodeURI", "escape",
     "unescape", "String", "Number", "Boolean", "Object", "Uint32Array", "Uint8Array",
     "Int32Array", "Buffer", "require", "define", "module", "exports", "Array"}

\* host values that are JavaScript functions (typeof value === 'function')
HostObjectNames == {"console", "Math", "module", "exports"}

setupBuiltins ==
    [n \in BuiltinHostNames \cup {"undefined", "NaN", "Infinity"} |->
        CASE n = "undefined" -> Undef
          [] n = "NaN" -> NaNV
          [] n = "Infinity" -> [t |-> "inf", v |-> 1]
          [] OTHER -> Host(n)]

IsHostFunction(x) == x.t = "host" /\ x.v \notin HostObjectNames

FnObject(name, params, startAddress, closureScope) ==
    [k |-> "fn", name |-> name, params |-> params, startAddress |-> startAddress,
     closureScope |-> closureScope, env |-> 0, closureId |-> 0, vm |-> 0, outer |-> 0]
EnvObject(m) == [k |-> "env", m |-> m]
ObjObject(props) == [k |-> "obj", props |-> props]
ArrObject(elems) == [k |-> "arr", elems |-> elems]

KindOf(heap, x) == IF x.t = "ref" THEN heap[x.v].k ELSE "none"
\* typeof value === 'object' && value.startAddress !== undefined, for a non-null value
IsUserFunction(heap, x) == KindOf(heap, x) = "fn"

\* base is not a field of the source's CallFrame: it records the operand stack
\* as the call left it beneath the callee and its arguments
CallFrame(returnAddress, locals, isConstructorCall, newInstance, currentFunction) ==
    [returnAddress |-> returnAddress, locals |-> locals,
     isConstructorCall |-> isConstructorCall, newInstance |-> newInstance,
     currentFunction |-> currentFunction, base |-> <<>>]

\* Array.prototype.pop on the operand stack: undefined, and no change, when empty
Top(stack) == IF Len(stack) = 0 THEN Undef ELSE stack[Len(stack)]
Pop(stack) == IF Len(stack) = 0 THEN stack ELSE SubSeq(stack, 1, Len(stack) - 1)
Peek(stack, n) == IF Len(stack) >= n THEN stack[Len(stack) + 1 - n] ELSE Undef
RECURSIVE PopN(_, _)
PopN(stack, n) == IF n = 0 THEN stack ELSE PopN(Pop(stack), n - 1)

Truthy(x) ==
    CASE x.t \in {"undef", "null", "nan"} -> FALSE
      [] x.t = "bool" -> x.v
      [] x.t = "num" -> x.v # 0
      [] x.t = "str" -> x.v # ""
      [] OTHER -> TRUE

TypeofString(heap, x) ==
    CASE x.t = "null" -> "object"
      [] x.t = "undef" -> "undefined"
      [] x.t \in {"num", "nan", "inf", "frac"} -> "number"
      [] x.t = "bool" -> "boolean"
      [] x.t = "str" -> "string"
      [] x.t = "host" -> IF IsHostFunction(x) THEN "function" ELSE "object"
      [] x.t = "ref" -> IF heap[x.v].k = "fn" THEN "function" ELSE "object"
      [] OTHER -> "object"

\* String(value) for the values that occur as property keys and in string +
ToStr(x) ==
    CASE x.t = "str" -> x.v
      [] x.t = "num" -> ToString(x.v)
      [] x.t = "bool" -> IF x.v THEN "true" ELSE "false"
      [] x.t = "undef" -> "undefined"
      [] x.t = "null" -> "null"
      [] x.t = "nan" -> "NaN"
      [] x.t = "regex" -> "/" \o x.v[1] \o "/" \o x.v[2]
      [] OTHER -> "[object Object]"

\* ToNumber: a Num, or NaNV
ToNum(x) ==
    CASE x.t = "num" -> x
      [] x.t = "bool" -> Num(IF x.v THEN 1 ELSE 0)
      [] x.t = "null" -> Num(0)
      [] x.t = "str" /\ x.v = "" -> Num(0)
      [] OTHER -> NaNV

RECURSIVE Pow2(_)
Pow2(n) == IF n <= 0 THEN 1 ELSE 2 * Pow2(n - 1)

\* bitwise operators on the non-negative integers below 2^31
RECURSIVE BitOp(_, _, _)
BitOp(op, a, b) ==
    IF a = 0 /\ b = 0 THEN 0
    ELSE LET x == a % 2
             y == b % 2
             bit == CASE op = "BIT_AND" -> IF x = 1 /\ y = 1 THEN 1 ELSE 0
                      [] op = "BIT_OR" -> IF x = 1 \/ y = 1 THEN 1 ELSE 0
                      [] OTHER -> IF x # y THEN 1 ELSE 0
         IN bit + 2 * BitOp(op, a \div 2, b \div 2)

Arith(op, a, b) ==
    LET x == ToNum(a)
        y == ToNum(b)
    IN IF x.t # "num" \/ y.t # "num" THEN NaNV
       ELSE CASE op = "SUB" -> Num(x.v - y.v)
              [] op = "MUL" -> Num(x.v * y.v)
              [] op = "DIV" -> IF y.v = 0 THEN [t |-> "inf", v |-> 1]
                               ELSE IF x.v % y.v = 0 THEN Num(x.v \div y.v)
                               ELSE [t |-> "frac", v |-> <<x.v, y.v>>]
              [] op = "MOD" -> IF y.v = 0 THEN NaNV
                               ELSE IF x.v >= 0 THEN Num(x.v % (IF y.v < 0 THEN -y.v ELSE y.v))
                               ELSE Num(-((-x.v) % (IF y.v < 0 THEN -y.v ELSE y.v)))
              [] op = "SHL" -> Num(x.v * Pow2(y.v % 32))
              [] op \in {"SHR", "USHR"} -> Num(x.v \div Pow2(y.v % 32))
              [] OTHER -> Num(BitOp(op, x.v, y.v))

Add(a, b) ==
    IF a.t \in {"str", "ref", "host"} \/ b.t \in {"str", "ref", "host"}
    THEN Str(ToStr(a) \o ToStr(b))
    ELSE LET x == ToNum(a)
             y == ToNum(b)
         IN IF x.t = "num" /\ y.t = "num" THEN Num(x.v + y.v) ELSE NaNV

\* a === b
StrictEq(a, b) == a.t # "nan" /\ a = b

Compare(op, a, b) ==
    LET x == ToNum(a)
        y == ToNum(b)
    IN IF x.t # "num" \/ y.t # "num" THEN FALSE
       ELSE CASE op = "LT" -> x.v < y.v
              [] op = "LE" -> x.v <= y.v
              [] op = "GT" -> x.v > y.v
              [] OTHER -> x.v >= y.v

BinaryOpcodes ==
    {"ADD", "SUB", "MUL", "DIV", "MOD", "SHL", "SHR", "USHR", "BIT_AND", "BIT_OR", "BIT_XOR",
     "EQ", "NE", "LT", "LE", "GT", "GE", "AND", "OR"}
UnaryOpcodes == {"NEG", "NOT", "BIT_NOT", "TYPEOF"}

BinaryResult(op, a, b) ==
    CASE op = "ADD" -> Add(a, b)
      [] op = "EQ" -> Bool(StrictEq(a, b))
      [] op = "NE" -> Bool(~StrictEq(a, b))
      [] op \in {"LT", "LE", "GT", "GE"} -> Bool(Compare(op, a, b))
      [] op = "AND" -> IF Truthy(a) THEN b ELSE a
      [] op = "OR" -> IF Truthy(a) THEN a ELSE b
      [] OTHER -> Arith(op, a, b)

UnaryResult(heap, op, a) ==
    CASE op = "NEG" -> Arith("SUB", Num(0), a)
      [] op = "NOT" -> Bool(~Truthy(a))
      [] op = "BIT_NOT" -> Arith("SUB", Num(-1), a)
      [] OTHER -> Str(TypeofString(heap, a))

(***************************************************************************)
(* The machine state the instruction handlers work on:                     *)
(*   m = [globals, thisTarget, stack, callStack, pc, heap,                 *)
(*        closureIdCounter, vmId, err]                                     *)
(* err is "" until a handler throws; thisTarget is the target object of    *)
(* the Proxy bound to the global 'this'.                                   *)
(***************************************************************************)
throw(m, kind) == [m EXCEPT !.err = kind]
push(m, x) == [m EXCEPT !.stack = Append(@, x)]
pop(m) == [m EXCEPT !.stack = Pop(@)]
popN(m, n) == [m EXCEPT !.stack = PopN(@, n)]
alloc(m, object) == [m EXCEPT !.heap = Append(@, object)]
newId(m) == Len(m.heap) + 1

currentFrame(m) == m.callStack[Len(m.callStack)]

\* currentFrame.currentFunction && currentFunction._closureEnv && _closureEnv.has(varName)
closureHas(m, varName) ==
    /\ Len(m.callStack) > 0
    /\ currentFrame(m).currentFunction # 0
    /\ m.heap[currentFrame(m).currentFunction].env # 0
    /\ Has(m.heap[m.heap[currentFrame(m).currentFunction].env].m, varName)

closureEnvOf(m) == m.heap[currentFrame(m).currentFunction].env

\* the innermost frame, searching from the top of the call stack, whose locals
\* have varName; 0 when none has
frameWith(m, varName) ==
    LET hits == {i \in 1..Len(m.callStack) : Has(m.callStack[i].locals, varName)}
    IN IF hits = {} THEN 0 ELSE CHOOSE i \in hits : \A j \in hits : j <= i

\* names that "varName in globalThis" finds on the Proxy target through
\* Object.prototype
ObjectPrototypeNames ==
    {"constructor", "toString", "valueOf", "hasOwnProperty", "isPrototypeOf",
     "propertyIsEnumerable", "toLocaleString"}

executePush(m, value) == push(m, value)

executePop(m) == IF Len(m.stack) = 0 THEN throw(m, "stack-empty") ELSE pop(m)

executeDup(m) == IF Len(m.stack) = 0 THEN throw(m, "stack-empty") ELSE push(m, Top(m.stack))

executeBinary(m, op) ==
    LET b == Peek(m.stack, 1)
        a == Peek(m.stack, 2)
    IN IF op = "DIV" /\ b = Num(0) THEN throw(popN(m, 2), "div-zero")
       ELSE push(popN(m, 2), BinaryResult(op, a, b))

executeUnary(m, op) == push(pop(m), UnaryResult(m.heap, op, Top(m.stack)))

executeLoadFramesFirst(m, varName) ==
    IF frameWith(m, varName) # 0
    THEN push(m, m.callStack[frameWith(m, varName)].locals[varName])
    ELSE IF closureHas(m, varName) THEN push(m, m.heap[closureEnvOf(m)].m[varName])
    ELSE IF Has(m.globals, varName) THEN push(m, m.globals[varName])
    ELSE IF Has(m.globals, "this") /\ m.globals["this"] = GlobalThis
            /\ (Has(m.thisTarget, varName) \/ varName \in ObjectPrototypeNames)
    THEN push(m, IF Has(m.thisTarget, varName) THEN m.thisTarget[varName]
                 ELSE Host("Object.prototype." \o varName))
    ELSE throw(m, "undefined-variable")

executeLoad(m, varName) ==
    IF closureHas(m, varName) THEN push(m, m.heap[closureEnvOf(m)].m[varName])
    ELSE IF frameWith(m, varName) # 0
    THEN push(m, m.callStack[frameWith(m, varName)].locals[varName])
    ELSE IF Has(m.globals, varName) THEN push(m, m.globals[varName])
    ELSE IF Has(m.globals, "this") /\ m.globals["this"] = GlobalThis
            /\ (Has(m.thisTarget, varName) \/ varName \in ObjectPrototypeNames)
    THEN push(m, IF Has(m.thisTarget, varName) THEN m.thisTarget[varName]
                 ELSE Host("Object.prototype." \o varName))
    ELSE throw(m, "undefined-variable")

executeStoreFramesFirst(m, varName) ==
    LET value == Top(m.stack)
        m1 == pop(m)
    IN IF frameWith(m, varName) # 0
       THEN [m1 EXCEPT !.callStack[frameWith(m, varName)].locals = Put(@, varName, value)]
       ELSE IF closureHas(m, varName)
       THEN [m1 EXCEPT !.heap[closureEnvOf(m)].m = Put(@, varName, value)]
       ELSE [m1 EXCEPT !.globals = Put(@, varName, value)]

executeStore(m, varName) ==
    LET value == Top(m.stack)
        m1 == pop(m)
    IN IF closureHas(m, varName)
       THEN [m1 EXCEPT !.heap[closureEnvOf(m)].m = Put(@, varName, value)]
       ELSE IF frameWith(m, varName) # 0
       THEN [m1 EXCEPT !.callStack[frameWith(m, varName)].locals = Put(@, varName, value)]
       ELSE [m1 EXCEPT !.globals = Put(@, varName, value)]

\* entries of under whose key is not yet in over are added to over
Capture(over, under) == over @@ under
Without(map, names) == [n \in (DOMAIN map) \ names |-> map[n]]

RECURSIVE outerLocals(_, _)
\* the locals of frames i, i-1, ..., 1 merged, an inner frame taking precedence
outerLocals(m, i) ==
    IF i < 1 THEN EmptyMap
    ELSE Capture(Without(m.callStack[i].locals, {"this", "arguments"}), outerLocals(m, i - 1))

createClosureEnvironment(m, func) ==
    LET fromFrame == Without(currentFrame(m).locals, {"this", "arguments"})
        fromOuter == outerLocals(m, Len(m.callStack) - 1)
        fromGlobals == Without(m.globals, DOMAIN setupBuiltins)
        env == Capture(Capture(fromFrame, fromOuter), fromGlobals)
        m1 == alloc(m, EnvObject(env))
    IN [m1 EXCEPT !.heap[func].env = newId(m)]

createClosureEnvironmentFromGlobal(m, func) ==
    LET env == Without(m.globals, DOMAIN setupBuiltins \cup {"this"})
        m1 == alloc(m, EnvObject(env))
    IN [m1 EXCEPT !.heap[func].env = newId(m)]

executeDeclare(m, varName) ==
    LET value == Top(m.stack)
        m1 == pop(m)
        inFunction == Len(m.callStack) > 0
        m2 == IF inFunction
              THEN [m1 EXCEPT !.callStack[Len(m.callStack)].locals = Put(@, varName, value)]
              ELSE [m1 EXCEPT !.globals = Put(@, varName, value)]
    IN IF value.t = "null" THEN throw(m2, "type-error")
       ELSE IF IsUserFunction(m.heap, value) /\ m.heap[value.v].env = 0
       THEN IF inFunction THEN createClosureEnvironment(m2, value.v)
            ELSE createClosureEnvironmentFromGlobal(m2, value.v)
       ELSE m2

isFunctionParameter(m, func, varName) == varName \in Range(m.heap[func].params)

isBuiltinOrGlobalFunction(m, varName) ==
    \/ varName \in DOMAIN setupBuiltins
    \/ Has(m.globals, varName) /\ IsHostFunction(m.globals[varName])

isFunctionObject(m, value) == IsUserFunction(m.heap, value)

\* deepCopyValue: arrays and plain objects are copied one level deep, every
\* other value is returned as it is; the result is [m, value]
deepCopyValue(m, value) ==
    IF KindOf(m.heap, value) \in {"arr", "obj"}
    THEN [m |-> alloc(m, m.heap[value.v]), value |-> Ref(newId(m))]
    ELSE [m |-> m, value |-> value]

RECURSIVE captureLocals(_, _, _, _)
captureLocals(m, env, locals, names) ==
    IF names = {} THEN m
    ELSE LET varName == CHOOSE n \in names : TRUE
             copied == deepCopyValue(m, locals[varName])
         IN captureLocals([copied.m EXCEPT !.heap[env].m = Put(@, varName, copied.value)],
                          env, locals, names \ {varName})

generateUniqueClosureId(m) == m.closureIdCounter + 1

createIndependentClosureEnvironment(m, func, returningFrame) ==
    LET env == newId(m)
        m1 == alloc(m, EnvObject(EmptyMap))
        m2 == [m1 EXCEPT !.heap[func].env = env,
                         !.heap[func].closureId = generateUniqueClosureId(m),
                         !.heap[func].vm = m.vmId,
                         !.heap[func].outer = returningFrame.currentFunction,
                         !.closureIdCounter = generateUniqueClosureId(m)]
        captured == {varName \in DOMAIN returningFrame.locals :
                        /\ varName \notin {"this", "arguments"}
                        /\ ~isFunctionParameter(m2, func, varName)
                        /\ ~isBuiltinOrGlobalFunction(m2, varName)
                        /\ ~isFunctionObject(m2, returningFrame.locals[varName])}
    IN captureLocals(m2, env, returningFrame.locals, captured)

executeJmp(m, operand) == [m EXCEPT !.pc = operand - 1]

executeJif(m, operand) ==
    IF Truthy(Top(m.stack)) THEN [pop(m) EXCEPT !.pc = operand - 1] ELSE pop(m)

executeJnf(m, operand) ==
    IF ~Truthy(Top(m.stack)) THEN [pop(m) EXCEPT !.pc = operand - 1] ELSE pop(m)

\* what the host functions of the model return
HostResult(name, args) ==
    LET first == IF Len(args) > 0 THEN args[1] ELSE Undef
    IN CASE name = "String" -> Str(ToStr(first))
         [] name = "Number" -> ToNum(first)
         [] name = "Boolean" -> Bool(Truthy(first))
         [] name = "isNaN" -> Bool(ToNum(first).t # "num")
         [] OTHER -> Undef

\* Object.keys(value) as a sequence of strings: the indices of an array or of
\* a string, the one key of an object with one property, nothing for an object
\* without properties and for a number or boolean (the model keeps no insertion
\* order, so objects with more properties are not iterated)
ObjectKeys(heap, value) ==
    CASE KindOf(heap, value) = "arr" ->
             [i \in 1..Len(heap[value.v].elems) |-> Str(ToString(i - 1))]
      [] KindOf(heap, value) = "obj" /\ Cardinality(DOMAIN heap[value.v].props) = 1 ->
             <<Str(CHOOSE key \in DOMAIN heap[value.v].props : TRUE)>>
      [] value.t = "str" -> [i \in 1..Len(value.v) |-> Str(ToString(i - 1))]
      [] OTHER -> <<>>

\* func.apply(globalThis, args) for a host function, the result pushed
callHost(m, name, args) ==
    IF name = "Object.keys"
    THEN IF Len(args) = 0 \/ args[1].t \in {"null", "undef"} THEN throw(m, "type-error")
         ELSE push(alloc(m, ArrObject(ObjectKeys(m.heap, args[1]))), Ref(newId(m)))
    ELSE push(m, HostResult(name, args))

hoistSiblingFunctionsForIIFE(m, locals) ==
    IF Has(m.globals, "this") /\ m.globals["this"] = GlobalThis
    THEN Capture(locals, [n \in {k \in DOMAIN m.thisTarget : IsHostFunction(m.thisTarget[k])}
                              |-> m.thisTarget[n]])
    ELSE locals

bindParamsReversed(params, args) ==
    [n \in Range(params) |->
        LET i == CHOOSE j \in 1..Len(params) :
                     params[j] = n /\ \A l \in 1..Len(params) : params[l] = n => l <= j
        IN IF i <= Len(args) THEN args[Len(args) + 1 - i] ELSE Undef]

\* the parameters bound to the arguments, a missing argument being undefined
bindParams(params, args) ==
    [n \in Range(params) |->
        LET i == CHOOSE j \in 1..Len(params) :
                     params[j] = n /\ \A l \in 1..Len(params) : params[l] = n => l <= j
        IN IF i <= Len(args) THEN args[i] ELSE Undef]

\* the argCount values popped after the callee, the first popped first
popArgs(stack, skip, argCount) == [i \in 1..argCount |-> Peek(stack, skip + i)]

globalThisOf(m) == IF Has(m.globals, "this") THEN m.globals["this"] ELSE Undef

enterFunction(m, func, args, thisValue, isConstructorCall, newInstance, extraLocals) ==
    LET locals0 == Put(bindParams(m.heap[func].params, args), "this", thisValue)
        locals == hoistSiblingFunctionsForIIFE(m, Capture(locals0, extraLocals))
        frame == [CallFrame(m.pc, locals, isConstructorCall, newInstance, func)
                      EXCEPT !.base = m.stack]
    IN [m EXCEPT !.callStack = Append(@, frame), !.pc = m.heap[func].startAddress - 1]

executeCall(m, argCount) ==
    LET func == Top(m.stack)
        args == popArgs(m.stack, 1, argCount)
        m1 == popN(m, 1 + argCount)
    IN IF IsHostFunction(func) THEN callHost(m1, func.v, args)
       ELSE IF func.t = "null" THEN throw(m1, "type-error")
       ELSE IF IsUserFunction(m.heap, func)
       THEN enterFunction(m1, func.v, args, globalThisOf(m), FALSE, Null, EmptyMap)
       ELSE throw(m1, "not-callable")

executeCallMethod(m, argCount) ==
    LET method == Top(m.stack)
        thisObject == Peek(m.stack, 2)
        args == popArgs(m.stack, 2, argCount)
        m1 == popN(m, 2 + argCount)
    IN IF IsHostFunction(method) THEN callHost(m1, method.v, args)
       ELSE IF method.t = "null" THEN throw(m1, "type-error")
       ELSE IF IsUserFunction(m.heap, method)
       THEN enterFunction(m1, method.v, args, thisObject, FALSE, Null, EmptyMap)
       ELSE throw(m1, "not-callable")

executeRetWithoutCopy(m) ==
    LET returnValue == Top(m.stack)
        m1 == pop(m)
    IN IF Len(m.callStack) = 0 THEN throw(m1, "no-frame")
       ELSE LET frame == currentFrame(m)
                m2 == [m1 EXCEPT !.callStack = SubSeq(@, 1, Len(@) - 1),
                                 !.pc = frame.returnAddress]
            IN IF IsUserFunction(m.heap, returnValue)
               THEN push(createIndependentClosureEnvironment(m2, returnValue.v, frame),
                         returnValue)
               ELSE push(m2, returnValue)

executeRet(m) ==
    LET returnValue == Top(m.stack)
        m1 == pop(m)
    IN IF Len(m.callStack) = 0 THEN throw(m1, "no-frame")
       ELSE LET frame == currentFrame(m)
                m2 == [m1 EXCEPT !.callStack = SubSeq(@, 1, Len(@) - 1),
                                 !.pc = frame.returnAddress]
            IN IF returnValue.t = "null" THEN throw(m2, "type-error")
               ELSE IF IsUserFunction(m.heap, returnValue)
               THEN LET original == m.heap[returnValue.v]
                        functionCopy == newId(m2)
                        m3 == alloc(m2, FnObject(original.name, original.params,
                                                 original.startAddress, original.closureScope))
                    IN push(createIndependentClosureEnvironment(m3, functionCopy, frame),
                            Ref(functionCopy))
               ELSE IF frame.isConstructorCall
               THEN IF returnValue.t \in {"ref", "regex", "gthis"}
                       \/ (returnValue.t = "host" /\ ~IsHostFunction(returnValue))
                    THEN push(m2, returnValue)
                    ELSE push(m2, frame.newInstance)
               ELSE push(m2, returnValue)

\* array[index] / object[key]
ElemOf(elems, index) ==
    IF index.t = "num" /\ index.v >= 0 /\ index.v < Len(elems) THEN elems[index.v + 1] ELSE Undef

getPropertyWithPrototype(m, object, propertyName) ==
    LET key == ToStr(propertyName)
    IN CASE object = GlobalThis ->
                IF Has(m.thisTarget, key) THEN m.thisTarget[key]
                ELSE IF key \in ObjectPrototypeNames THEN Host("Object.prototype." \o key)
                ELSE IF Has(m.globals, key) THEN m.globals[key] ELSE Undef
         [] object.t = "host" -> Host(object.v \o "." \o key)
         [] object.t = "str" -> Undef
         [] KindOf(m.heap, object) = "obj" ->
                IF Has(m.heap[object.v].props, key) THEN m.heap[object.v].props[key] ELSE Undef
         [] KindOf(m.heap, object) = "arr" ->
                IF key = "length" THEN Num(Len(m.heap[object.v].elems))
                ELSE ElemOf(m.heap[object.v].elems, propertyName)
         [] KindOf(m.heap, object) = "fn" ->
                CASE key = "name" -> Str(m.heap[object.v].name)
                  [] key = "startAddress" -> Num(m.heap[object.v].startAddress)
                  [] OTHER -> Undef
         [] OTHER -> Undef

executeGetProp(m) ==
    LET propertyName == Top(m.stack)
        object == Peek(m.stack, 2)
        m1 == popN(m, 2)
    IN IF object.t \in {"null", "undef"} THEN throw(m1, "property-of-nullish")
       ELSE push(m1, getPropertyWithPrototype(m, object, propertyName))

executeNewArr(m) ==
    LET length == Top(m.stack)
        n == IF length.t = "num" /\ length.v >= 0 THEN length.v ELSE 0
        elems == [i \in 1..n |-> Peek(m.stack, 1 + (n + 1 - i))]
    IN push(alloc(popN(m, 1 + n), ArrObject(elems)), Ref(newId(m)))

RECURSIVE objectFromStack(_, _, _)
\* the pairs are popped key first, value second; a later pop overwrites
objectFromStack(stack, i, props) ==
    IF i = 0 THEN props
    ELSE objectFromStack(PopN(stack, 2), i - 1, Put(props, ToStr(Top(stack)), Peek(stack, 2)))

executeNewObj(m) ==
    LET propCount == Top(m.stack)
        n == IF propCount.t = "num" /\ propCount.v >= 0 THEN propCount.v ELSE 0
        props == objectFromStack(Pop(m.stack), n, EmptyMap)
    IN push(alloc(popN(m, 1 + 2 * n), ObjObject(props)), Ref(newId(m)))

executeGetElem(m) ==
    LET index == Top(m.stack)
        array == Peek(m.stack, 2)
        m1 == popN(m, 2)
    IN IF KindOf(m.heap, array) # "arr" THEN throw(m1, "not-an-array")
       ELSE push(m1, ElemOf(m.heap[array.v].elems, index))

\* array[index] = value, the array growing with undefined holes
SetElem(elems, index, value) ==
    [i \in 1..(IF index + 1 > Len(elems) THEN index + 1 ELSE Len(elems)) |->
        IF i = index + 1 THEN value ELSE IF i <= Len(elems) THEN elems[i] ELSE Undef]

\* object[property] = value
assignProperty(m, object, property, value) ==
    LET key == ToStr(property)
    IN CASE object = GlobalThis ->
                [m EXCEPT !.thisTarget = Put(@, key, value), !.globals = Put(@, key, value)]
         [] KindOf(m.heap, object) = "obj" -> [m EXCEPT !.heap[object.v].props = Put(@, key, value)]
         [] KindOf(m.heap, object) = "arr" /\ property.t = "num" /\ property.v >= 0 ->
                [m EXCEPT !.heap[object.v].elems = SetElem(@, property.v, value)]
         [] OTHER -> m

executeSetElem(m) ==
    IF Len(m.stack) < 3 THEN throw(m, "stack-underflow")
    ELSE LET index == Top(m.stack)
             array == Peek(m.stack, 2)
             value == Peek(m.stack, 3)
             m1 == popN(m, 3)
         IN IF KindOf(m.heap, array) # "arr" THEN throw(m1, "not-an-array")
            ELSE push(assignProperty(m1, array, index, value), value)

executeSetProp(m) ==
    LET property == Top(m.stack)
        object == Peek(m.stack, 2)
        value == Peek(m.stack, 3)
        m1 == popN(m, 3)
    IN IF object.t \in {"null", "undef"} THEN throw(m1, "property-of-nullish")
       ELSE push(assignProperty(m1, object, property, value), value)

executeNew(m, argCount) ==
    LET constructor == Top(m.stack)
        args == popArgs(m.stack, 1, argCount)
        m1 == popN(m, 1 + argCount)
    IN IF constructor = Host("Array")
       THEN push(alloc(m1, ArrObject(IF Len(args) = 1 /\ args[1].t = "num" /\ args[1].v >= 0
                                     THEN [i \in 1..args[1].v |-> Undef] ELSE args)),
                 Ref(newId(m1)))
       ELSE IF IsHostFunction(constructor)
       THEN push(alloc(m1, ObjObject(EmptyMap)), Ref(newId(m1)))
       ELSE IF IsUserFunction(m.heap, constructor)
       THEN LET newInstance == newId(m1)
                m2 == alloc(m1, ObjObject(EmptyMap))
                func == m.heap[constructor.v]
                closure == IF func.env # 0 THEN m.heap[func.env].m ELSE EmptyMap
            IN enterFunction(m2, constructor.v, args, Ref(newInstance), TRUE,
                             Ref(newInstance), closure)
       ELSE throw(m1, "construct-failed")

executeThrowIgnored(m) == pop(m)

executeThrow(m) == throw(pop(m), "thrown")

executeInstruction(m, instruction, constantPool) ==
    LET opcode == instruction.op
        operand == instruction.arg
        hasConstant == operand >= 0 /\ operand < Len(constantPool)
        constant == IF hasConstant THEN constantPool[operand + 1] ELSE Undef
    IN IF opcode \in {"PUSH", "LOAD", "STORE", "DECLARE", "CALL", "CALL_METHOD", "NEW"}
          /\ ~hasConstant
       THEN throw(m, "constant-index")
       ELSE CASE opcode = "PUSH" -> executePush(m, constant)
              [] opcode = "POP" -> executePop(m)
              [] opcode = "DUP" -> executeDup(m)
              [] opcode \in BinaryOpcodes -> executeBinary(m, opcode)
              [] opcode \in UnaryOpcodes -> executeUnary(m, opcode)
              [] opcode = "LOAD" -> executeLoad(m, keyOf(constant))
              [] opcode = "STORE" -> executeStore(m, keyOf(constant))
              [] opcode = "DECLARE" -> executeDeclare(m, keyOf(constant))
              [] opcode = "JMP" -> executeJmp(m, operand)
              [] opcode = "JIF" -> executeJif(m, operand)
              [] opcode = "JNF" -> executeJnf(m, operand)
              [] opcode = "CALL" -> executeCall(m, constant.v)
              [] opcode = "CALL_METHOD" -> executeCallMethod(m, constant.v)
              [] opcode = "RET" -> executeRet(m)
              [] opcode = "GET_PROP" -> executeGetProp(m)
              [] opcode = "NEW_ARR" -> executeNewArr(m)
              [] opcode = "NEW_OBJ" -> executeNewObj(m)
              [] opcode = "GET_ELEM" -> executeGetElem(m)
              [] opcode = "SET_ELEM" -> executeSetElem(m)
              [] opcode = "SET_PROP" -> executeSetProp(m)
              [] opcode = "NEW" -> executeNew(m, constant.v)
              [] opcode = "THROW" -> executeThrow(m)
              [] opcode \in {"TRY", "CATCH", "FINALLY", "END_TRY", "HALT"} -> m
              [] opcode \in {"BREAK", "CONTINUE"} -> throw(m, "break-continue")
              [] OTHER -> throw(m, "unknown-opcode")

(***************************************************************************)
(* The programs handed to the facade, as the ASTs the parser yields for    *)
(* them, and the host contexts.                                            *)
(***************************************************************************)
\* 2 + 3 * 4
SrcArith == File(<<ExprStmt(Bin("+", NumLit(2), Bin("*", NumLit(3), NumLit(4))))>>)
\* var x = 1;
SrcVarX == File(<<Var("x", NumLit(1))>>)
\* x
SrcReadX == File(<<ExprStmt(Ident("x"))>>)
\* var x = 1; y
SrcFailAfterX == File(<<Var("x", NumLit(1)), ExprStmt(Ident("y"))>>)
\* function f() { return secret; } f()
SrcSecret ==
    File(<<FuncDecl("f", <<>>, Block(<<Return(Ident("secret"))>>)),
           ExprStmt(Call(Ident("f"), <<>>))>>)
\* function mk(n) { return function () { n = n + 1; return n; }; }
\* var a = mk(10); var b = mk(100);
\* var r1 = a(); var r2 = a(); var r3 = b(); var r4 = a(); var r5 = b(); b
SrcCounters ==
    File(<<FuncDecl("mk", <<"n">>,
               Block(<<Return(FuncExpr(NoNode, <<>>,
                   Block(<<ExprStmt(Assign("=", Ident("n"), Bin("+", Ident("n"), NumLit(1)))),
                           Return(Ident("n"))>>)))>>)),
           Var("a", Call(Ident("mk"), <<NumLit(10)>>)),
           Var("b", Call(Ident("mk"), <<NumLit(100)>>)),
           Var("r1", Call(Ident("a"), <<>>)),
           Var("r2", Call(Ident("a"), <<>>)),
           Var("r3", Call(Ident("b"), <<>>)),
           Var("r4", Call(Ident("a"), <<>>)),
           Var("r5", Call(Ident("b"), <<>>)),
           ExprStmt(Ident("b"))>>)
\* function mk(n) { return function () { n = n + 1; return n; }; }
\* function id(f) { return f; }
\* var a = mk(10); var r1 = a(); var b = id(a); b()
SrcReturnClosed ==
    File(<<FuncDecl("mk", <<"n">>,
               Block(<<Return(FuncExpr(NoNode, <<>>,
                   Block(<<ExprStmt(Assign("=", Ident("n"), Bin("+", Ident("n"), NumLit(1)))),
                           Return(Ident("n"))>>)))>>)),
           FuncDecl("id", <<"f">>, Block(<<Return(Ident("f"))>>)),
           Var("a", Call(Ident("mk"), <<NumLit(10)>>)),
           Var("r1", Call(Ident("a"), <<>>)),
           Var("b", Call(Ident("id"), <<Ident("a")>>)),
           ExprStmt(Call(Ident("b"), <<>>))>>)
\* try {} catch (e) {}
SrcTryCatch == File(<<Try(Block(<<>>), CatchClause("e", Block(<<>>)), NoNode)>>)
\* var sum = 0; for (var i = 1; i <= 3; i++) { sum += i; } sum
SrcLoop ==
    File(<<Var("sum", NumLit(0)),
           For(Var("i", NumLit(1)), Bin("<=", Ident("i"), NumLit(3)),
               Update("++", FALSE, Ident("i")),
               Block(<<ExprStmt(Assign("+=", Ident("sum"), Ident("i")))>>)),
           ExprStmt(Ident("sum"))>>)
\* var x = 5; if (x > 3) { x = 10; } else { x = 0; } x
SrcIf ==
    File(<<Var("x", NumLit(5)),
           If(Bin(">", Ident("x"), NumLit(3)),
              Block(<<ExprStmt(Assign("=", Ident("x"), NumLit(10)))>>),
              Block(<<ExprStmt(Assign("=", Ident("x"), NumLit(0)))>>)),
           ExprStmt(Ident("x"))>>)
\* while (x) { a in b; }
SrcBadInLoop ==
    File(<<While(Ident("x"), Block(<<ExprStmt(Bin("in", Ident("a"), Ident("b")))>>))>>)
\* switch (x) { case 1: var v; a in b; }
SrcBadInSwitch ==
    File(<<Switch(Ident("x"),
               <<Case(NumLit(1), <<Var("v", NoNode),
                                   ExprStmt(Bin("in", Ident("a"), Ident("b")))>>)>>)>>)
\* var r = 0; switch (2) { case 1: r = 1; break; case 2: r = 2; break; default: r = 3; } r
SrcSwitch ==
    File(<<Var("r", NumLit(0)),
           Switch(NumLit(2),
               <<Case(NumLit(1), <<ExprStmt(Assign("=", Ident("r"), NumLit(1))), Break>>),
                 Case(NumLit(2), <<ExprStmt(Assign("=", Ident("r"), NumLit(2))), Break>>),
                 Case(NoNode, <<ExprStmt(Assign("=", Ident("r"), NumLit(3)))>>)>>),
           ExprStmt(Ident("r"))>>)
\* var n = 0; do { n++; if (n < 2) continue; break; } while (true); n
SrcBreakContinue ==
    File(<<Var("n", NumLit(0)),
           DoWhile(Block(<<ExprStmt(Update("++", FALSE, Ident("n"))),
                           If(Bin("<", Ident("n"), NumLit(2)), Continue, NoNode),
                           Break>>),
                   BoolLit(TRUE)),
           ExprStmt(Ident("n"))>>)
\* var t = true && false; (t || 5) ? 1 : 2
SrcLogicalCond ==
    File(<<Var("t", Logical("&&", BoolLit(TRUE), BoolLit(FALSE))),
           ExprStmt(Cond(Logical("||", Ident("t"), NumLit(5)), NumLit(1), NumLit(2)))>>)
\* function add(a, b) { return a + b; } add(3, 4)
SrcFunc ==
    File(<<FuncDecl("add", <<"a", "b">>, Block(<<Return(Bin("+", Ident("a"), Ident("b")))>>)),
           ExprStmt(Call(Ident("add"), <<NumLit(3), NumLit(4)>>))>>)
\* var n = 0; while (n < 2) { n = n + 1; } var o = {k: n}; o.k
SrcWhileObject ==
    File(<<Var("n", NumLit(0)),
           While(Bin("<", Ident("n"), NumLit(2)),
                 Block(<<ExprStmt(Assign("=", Ident("n"), Bin("+", Ident("n"), NumLit(1))))>>)),
           Var("o", ObjectExpr(<<Prop(Ident("k"), Ident("n"), FALSE)>>)),
           ExprStmt(Member(Ident("o"), Ident("k"), FALSE))>>)
\* function outer(v) { var x = v; function inner() { return x; } return inner(); }
\* outer(1); outer(2)
SrcInnerTwice ==
    File(<<FuncDecl("outer", <<"v">>,
               Block(<<Var("x", Ident("v")),
                       FuncDecl("inner", <<>>, Block(<<Return(Ident("x"))>>)),
                       Return(Call(Ident("inner"), <<>>))>>)),
           ExprStmt(Call(Ident("outer"), <<NumLit(1)>>)),
           ExprStmt(Call(Ident("outer"), <<NumLit(2)>>))>>)
\* function outer() { var x = 5; function inner() { return x; } x = 6; return inner(); }
\* outer()
SrcInnerAfterStore ==
    File(<<FuncDecl("outer", <<>>,
               Block(<<Var("x", NumLit(5)),
                       FuncDecl("inner", <<>>, Block(<<Return(Ident("x"))>>)),
                       ExprStmt(Assign("=", Ident("x"), NumLit(6))),
                       Return(Call(Ident("inner"), <<>>))>>)),
           ExprStmt(Call(Ident("outer"), <<>>))>>)
\* function factorial(n) { if (n <= 1) return 1; return n * factorial(n - 1); }
\* factorial(5)
SrcFactorial ==
    File(<<FuncDecl("factorial", <<"n">>,
               Block(<<If(Bin("<=", Ident("n"), NumLit(1)), Return(NumLit(1)), NoNode),
                       Return(Bin("*", Ident("n"),
                                  Call(Ident("factorial"),
                                       <<Bin("-", Ident("n"), NumLit(1))>>)))>>)),
           ExprStmt(Call(Ident("factorial"), <<NumLit(5)>>))>>)
\* function f(a) { if (a) a = 2; return a; } f(1)
SrcUnbracedIf ==
    File(<<FuncDecl("f", <<"a">>,
               Block(<<If(Ident("a"), ExprStmt(Assign("=", Ident("a"), NumLit(2))), NoNode),
                       Return(Ident("a"))>>)),
           ExprStmt(Call(Ident("f"), <<NumLit(1)>>))>>)
\* function sub(a, b) { return a - b; } sub(10, 3, 99)
SrcSub ==
    File(<<FuncDecl("sub", <<"a", "b">>, Block(<<Return(Bin("-", Ident("a"), Ident("b")))>>)),
           ExprStmt(Call(Ident("sub"), <<NumLit(10), NumLit(3), NumLit(99)>>))>>)
\* function second(a, b) { return b; } var o = {m: second};
\* String(second(1)) + String(7, 8) + o.m(4, 5)
SrcMissing ==
    File(<<FuncDecl("second", <<"a", "b">>, Block(<<Return(Ident("b"))>>)),
           Var("o", ObjectExpr(<<Prop(Ident("m"), Ident("second"), FALSE)>>)),
           ExprStmt(Bin("+", Bin("+", Call(Ident("String"),
                                           <<Call(Ident("second"), <<NumLit(1)>>)>>),
                                 Call(Ident("String"), <<NumLit(7), NumLit(8)>>)),
                        Call(Member(Ident("o"), Ident("m"), FALSE),
                             <<NumLit(4), NumLit(5)>>)))>>)
\* 1 / 0
SrcDivZero == File(<<ExprStmt(Bin("/", NumLit(1), NumLit(0)))>>)
\* function F(p) { this.a = p; return 5; } function G() { return {b: 2}; }
\* function H() { this.c = 3; } new F(1).a + new G().b + new H().c
SrcNew ==
    File(<<FuncDecl("F", <<"p">>,
               Block(<<ExprStmt(Assign("=", Member(ThisExpr, Ident("a"), FALSE), Ident("p"))),
                       Return(NumLit(5))>>)),
           FuncDecl("G", <<>>,
               Block(<<Return(ObjectExpr(<<Prop(Ident("b"), NumLit(2), FALSE)>>))>>)),
           FuncDecl("H", <<>>,
               Block(<<ExprStmt(Assign("=", Member(ThisExpr, Ident("c"), FALSE),
                                       NumLit(3)))>>)),
           ExprStmt(Bin("+", Bin("+", Member(NewExpr(Ident("F"), <<NumLit(1)>>),
                                             Ident("a"), FALSE),
                                 Member(NewExpr(Ident("G"), <<>>), Ident("b"), FALSE)),
                        Member(NewExpr(Ident("H"), <<>>), Ident("c"), FALSE)))>>)
\* function N() { this.a = 1; return nothing; } new N().a
\* (nothing is bound to null by the host's context)
SrcNewNull ==
    File(<<FuncDecl("N", <<>>,
               Block(<<ExprStmt(Assign("=", Member(ThisExpr, Ident("a"), FALSE), NumLit(1))),
                       Return(Ident("nothing"))>>)),
           ExprStmt(Member(NewExpr(Ident("N"), <<>>), Ident("a"), FALSE))>>)
\* var y = nothing; 1
\* (nothing is bound to null by the host's context)
SrcDeclareNull ==
    File(<<Var("y", Ident("nothing")), ExprStmt(NumLit(1))>>)
\* function mk() { var Math = 5; return function () { return Math; }; }
\* var f = mk(); f()
SrcLocalMath ==
    File(<<FuncDecl("mk", <<>>,
               Block(<<Var("Math", NumLit(5)),
                       Return(FuncExpr(NoNode, <<>>, Block(<<Return(Ident("Math"))>>)))>>)),
           Var("f", Call(Ident("mk"), <<>>)),
           ExprStmt(Call(Ident("f"), <<>>))>>)
\* var n = 1; function f(n) { return n; } f(5)
SrcShadowParam ==
    File(<<Var("n", NumLit(1)),
           FuncDecl("f", <<"n">>, Block(<<Return(Ident("n"))>>)),
           ExprStmt(Call(Ident("f"), <<NumLit(5)>>))>>)
\* var v = 1; function g() { var v = 2; v = v + 1; return v; } g() * 10 + v
SrcShadowVar ==
    File(<<Var("v", NumLit(1)),
           FuncDecl("g", <<>>,
               Block(<<Var("v", NumLit(2)),
                       ExprStmt(Assign("=", Ident("v"), Bin("+", Ident("v"), NumLit(1)))),
                       Return(Ident("v"))>>)),
           ExprStmt(Bin("+", Bin("*", Call(Ident("g"), <<>>), NumLit(10)), Ident("v")))>>)
\* constructor
SrcReadConstructor == File(<<ExprStmt(Ident("constructor"))>>)
\* var r = f(); function f() { return 1; } r
SrcHoistTop ==
    File(<<Var("r", Call(Ident("f"), <<>>)),
           FuncDecl("f", <<>>, Block(<<Return(NumLit(1))>>)),
           ExprStmt(Ident("r"))>>)
\* switch (1) { case 1: var f = function () { while (true) { break; } return 7; }; f(); }
SrcBreakInFunctionInSwitch ==
    File(<<Switch(NumLit(1),
               <<Case(NumLit(1),
                   <<Var("f", FuncExpr(NoNode, <<>>,
                                 Block(<<While(BoolLit(TRUE), Block(<<Break>>)),
                                         Return(NumLit(7))>>))),
                     ExprStmt(Call(Ident("f"), <<>>))>>)>>)>>)
\* var i = 0; while (i < 2) i = i + 1; i
SrcUnbracedWhile ==
    File(<<Var("i", NumLit(0)),
           While(Bin("<", Ident("i"), NumLit(2)),
                 ExprStmt(Assign("=", Ident("i"), Bin("+", Ident("i"), NumLit(1))))),
           ExprStmt(Ident("i"))>>)
\* switch (k) { case 1: break; case 5: break; }
\* (k is bound by the host's context)
SrcSwitchPaths ==
    File(<<Switch(Ident("k"), <<Case(NumLit(1), <<Break>>), Case(NumLit(5), <<Break>>)>>)>>)
\* var n = 0; switch (1) { case 1: while (true) { n = n + 1; break; } n = n + 10; } n
SrcLoopInSwitch ==
    File(<<Var("n", NumLit(0)),
           Switch(NumLit(1),
               <<Case(NumLit(1),
                   <<While(BoolLit(TRUE),
                         Block(<<ExprStmt(Assign("=", Ident("n"), Bin("+", Ident("n"), NumLit(1)))),
                                 Break>>)),
                     ExprStmt(Assign("=", Ident("n"), Bin("+", Ident("n"), NumLit(10))))>>)>>),
           ExprStmt(Ident("n"))>>)
\* var s = 0;
\* for (var i = 0; i < 3; i++) { switch (i) { case 0: continue; case 1: break; } s = s + 1; }
\* s
SrcSwitchInLoop ==
    File(<<Var("s", NumLit(0)),
           For(Var("i", NumLit(0)), Bin("<", Ident("i"), NumLit(3)),
               Update("++", FALSE, Ident("i")),
               Block(<<Switch(Ident("i"),
                           <<Case(NumLit(0), <<Continue>>), Case(NumLit(1), <<Break>>)>>),
                       ExprStmt(Assign("=", Ident("s"), Bin("+", Ident("s"), NumLit(1))))>>)),
           ExprStmt(Ident("s"))>>)
\* if (k) break;   (as an AST handed to Compiler.compile: the parser rejects the text)
SrcStrayBreak == File(<<If(Ident("k"), Break, NoNode)>>)
\* switch (k) { case 1: continue; }   (likewise)
SrcStrayContinue == File(<<Switch(Ident("k"), <<Case(NumLit(1), <<Continue>>)>>)>>)
\* with (k) {}
SrcWith == File(<<WithStmt>>)
\* var n = 0; var a = k == 1 && (n = 5); var b = k == 1 || (n = n + 10); n
SrcShortCircuit ==
    File(<<Var("n", NumLit(0)),
           Var("a", Logical("&&", Bin("==", Ident("k"), NumLit(1)),
                                  Assign("=", Ident("n"), NumLit(5)))),
           Var("b", Logical("||", Bin("==", Ident("k"), NumLit(1)),
                                  Assign("=", Ident("n"), Bin("+", Ident("n"), NumLit(10))))),
           ExprStmt(Ident("n"))>>)
\* var r = 0; try { r = 1; } finally { r = 2; } try { throw r; } catch (e) { r = 3; } r
SrcThrowInTry ==
    File(<<Var("r", NumLit(0)),
           Try(Block(<<ExprStmt(Assign("=", Ident("r"), NumLit(1)))>>), NoNode,
               Block(<<ExprStmt(Assign("=", Ident("r"), NumLit(2)))>>)),
           Try(Block(<<Throw(Ident("r"))>>),
               CatchClause("e", Block(<<ExprStmt(Assign("=", Ident("r"), NumLit(3)))>>)),
               NoNode),
           ExprStmt(Ident("r"))>>)
\* var s = ""; for (var i in [7, 8]) { s = s + i; } s
SrcForIn ==
    File(<<Var("s", StrLit("")),
           ForIn(Var("i", NoNode), ArrayExpr(<<NumLit(7), NumLit(8)>>),
                 Block(<<ExprStmt(Assign("=", Ident("s"), Bin("+", Ident("s"), Ident("i"))))>>)),
           ExprStmt(Ident("s"))>>)
\* var s = ""; for (var i in [7, 8]) { for (var j in [9, 9]) { s = s + i + j; } } s
SrcForInNested ==
    File(<<Var("s", StrLit("")),
           ForIn(Var("i", NoNode), ArrayExpr(<<NumLit(7), NumLit(8)>>),
                 Block(<<ForIn(Var("j", NoNode), ArrayExpr(<<NumLit(9), NumLit(9)>>),
                     Block(<<ExprStmt(Assign("=", Ident("s"),
                                 Bin("+", Bin("+", Ident("s"), Ident("i")), Ident("j"))))>>))>>)),
           ExprStmt(Ident("s"))>>)
\* function f() { var c = ""; for (var j in [9]) { c = c + j; } return c; }
\* var s = ""; for (var i in [7, 8]) { s = s + i + f(); } s
SrcForInCall ==
    File(<<FuncDecl("f", <<>>,
               Block(<<Var("c", StrLit("")),
                       ForIn(Var("j", NoNode), ArrayExpr(<<NumLit(9)>>),
                             Block(<<ExprStmt(Assign("=", Ident("c"),
                                         Bin("+", Ident("c"), Ident("j"))))>>)),
                       Return(Ident("c"))>>)),
           Var("s", StrLit("")),
           ForIn(Var("i", NoNode), ArrayExpr(<<NumLit(7), NumLit(8)>>),
                 Block(<<ExprStmt(Assign("=", Ident("s"),
                             Bin("+", Bin("+", Ident("s"), Ident("i")),
                                 Call(Ident("f"), <<>>))))>>)),
           ExprStmt(Ident("s"))>>)
\* var o = {p: 1}; var a = [4]; o.p += 2; o.p++; ++o.p; a[0] *= 5; a[0]++; o.p * 10 + a[0]
SrcMemberUpdate ==
    File(<<Var("o", ObjectExpr(<<Prop(Ident("p"), NumLit(1), FALSE)>>)),
           Var("a", ArrayExpr(<<NumLit(4)>>)),
           ExprStmt(Assign("+=", Member(Ident("o"), Ident("p"), FALSE), NumLit(2))),
           ExprStmt(Update("++", FALSE, Member(Ident("o"), Ident("p"), FALSE))),
           ExprStmt(Update("++", TRUE, Member(Ident("o"), Ident("p"), FALSE))),
           ExprStmt(Assign("*=", Member(Ident("a"), NumLit(0), TRUE), NumLit(5))),
           ExprStmt(Update("++", FALSE, Member(Ident("a"), NumLit(0), TRUE))),
           ExprStmt(Bin("+", Bin("*", Member(Ident("o"), Ident("p"), FALSE), NumLit(10)),
                        Member(Ident("a"), NumLit(0), TRUE)))>>)
\* var a = [5, 6]; var i = 0; a[i++] += 10; a[0] * 100 + a[1] * 10 + i
SrcMemberKeyOnce ==
    File(<<Var("a", ArrayExpr(<<NumLit(5), NumLit(6)>>)),
           Var("i", NumLit(0)),
           ExprStmt(Assign("+=", Member(Ident("a"), Update("++", FALSE, Ident("i")), TRUE),
                           NumLit(10))),
           ExprStmt(Bin("+", Bin("+", Bin("*", Member(Ident("a"), NumLit(0), TRUE), NumLit(100)),
                                 Bin("*", Member(Ident("a"), NumLit(1), TRUE), NumLit(10))),
                        Ident("i")))>>)
\* var r = 0; try { r = 1; } catch (e) { r = 2; } r
SrcTryNoThrow ==
    File(<<Var("r", NumLit(0)),
           Try(Block(<<ExprStmt(Assign("=", Ident("r"), NumLit(1)))>>),
               CatchClause("e", Block(<<ExprStmt(Assign("=", Ident("r"), NumLit(2)))>>)),
               NoNode),
           ExprStmt(Ident("r"))>>)
\* var g = 1; function set() { g = 2; } set(); g
SrcGlobalSet ==
    File(<<Var("g", NumLit(1)),
           FuncDecl("set", <<>>, Block(<<ExprStmt(Assign("=", Ident("g"), NumLit(2)))>>)),
           ExprStmt(Call(Ident("set"), <<>>)),
           ExprStmt(Ident("g"))>>)
\* var g = 1; function get() { return g; } g = 5; get()
SrcGlobalGet ==
    File(<<Var("g", NumLit(1)),
           FuncDecl("get", <<>>, Block(<<Return(Ident("g"))>>)),
           ExprStmt(Assign("=", Ident("g"), NumLit(5))),
           ExprStmt(Call(Ident("get"), <<>>))>>)
\* function set() { h = 2; } var h = 1; set(); h
SrcGlobalSetLater ==
    File(<<FuncDecl("set", <<>>, Block(<<ExprStmt(Assign("=", Ident("h"), NumLit(2)))>>)),
           Var("h", NumLit(1)),
           ExprStmt(Call(Ident("set"), <<>>)),
           ExprStmt(Ident("h"))>>)
\* var {a} = k; a
SrcDestructure ==
    File(<<VarDecl(<<PatternDeclarator(ObjectPattern, Ident("k"))>>), ExprStmt(Ident("a"))>>)
\* function g() { return h(); function h() { return 2; } } g()
SrcHoistInner ==
    File(<<FuncDecl("g", <<>>,
               Block(<<Return(Call(Ident("h"), <<>>)),
                       FuncDecl("h", <<>>, Block(<<Return(NumLit(2))>>))>>)),
           ExprStmt(Call(Ident("g"), <<>>))>>)

NoValue == [t |-> "none", v |-> 0]

\* expect: the value JavaScript gives the last expression statement of a program
\* that reads no name from outside itself
Sources ==
    <<[ast |-> SrcArith, expect |-> Num(14)],
      [ast |-> SrcLoop, expect |-> Num(6)],
      [ast |-> SrcIf, expect |-> Num(10)],
      [ast |-> SrcSwitch, expect |-> Num(2)],
      [ast |-> SrcBreakContinue, expect |-> Num(2)],
      [ast |-> SrcLogicalCond, expect |-> Num(1)],
      [ast |-> SrcFunc, expect |-> Num(7)],
      [ast |-> SrcWhileObject, expect |-> Num(2)],
      [ast |-> SrcTryCatch, expect |-> NoValue],
      [ast |-> SrcBadInLoop, expect |-> NoValue],
      [ast |-> SrcBadInSwitch, expect |-> NoValue],
      [ast |-> SrcVarX, expect |-> NoValue],
      [ast |-> SrcReadX, expect |-> NoValue],
      [ast |-> SrcFailAfterX, expect |-> NoValue],
      [ast |-> SrcSecret, expect |-> NoValue],
      [ast |-> SrcCounters, expect |-> NoValue],
      [ast |-> SrcReturnClosed, expect |-> Num(12)],
      [ast |-> SrcInnerTwice, expect |-> Num(2)],
      [ast |-> SrcInnerAfterStore, expect |-> Num(6)],
      [ast |-> SrcFactorial, expect |-> Num(120)],
      [ast |-> SrcUnbracedIf, expect |-> Num(2)],
      [ast |-> SrcSub, expect |-> Num(7)],
      [ast |-> SrcMissing, expect |-> Str("undefined75")],
      [ast |-> SrcDivZero, expect |-> [t |-> "inf", v |-> 1]],
      [ast |-> SrcNew, expect |-> Num(6)],
      [ast |-> SrcNewNull, expect |-> Num(1)],
      [ast |-> SrcShadowParam, expect |-> Num(5)],
      [ast |-> SrcShadowVar, expect |-> Num(31)],
      [ast |-> SrcReadConstructor, expect |-> NoValue],
      [ast |-> SrcDeclareNull, expect |-> Num(1)],
      [ast |-> SrcLocalMath, expect |-> Num(5)],
      [ast |-> SrcHoistTop, expect |-> Num(1)],
      [ast |-> SrcHoistInner, expect |-> Num(2)],
      [ast |-> SrcBreakInFunctionInSwitch, expect |-> NoValue],
      [ast |-> SrcUnbracedWhile, expect |-> Num(2)],
      [ast |-> SrcSwitchPaths, expect |-> NoValue],
      [ast |-> SrcLoopInSwitch, expect |-> Num(11)],
      [ast |-> SrcSwitchInLoop, expect |-> Num(2)],
      [ast |-> SrcStrayBreak, expect |-> NoValue],
      [ast |-> SrcStrayContinue, expect |-> NoValue],
      [ast |-> SrcWith, expect |-> NoValue],
      [ast |-> SrcDestructure, expect |-> Undef],
      [ast |-> SrcShortCircuit, expect |-> NoValue],
      [ast |-> SrcThrowInTry, expect |-> NoValue],
      [ast |-> SrcForIn, expect |-> Str("01")],
      [ast |-> SrcForInNested, expect |-> Str("00011011")],
      [ast |-> SrcForInCall, expect |-> Str("0010")],
      [ast |-> SrcMemberUpdate, expect |-> Num(71)],
      [ast |-> SrcMemberKeyOnce, expect |-> Num(1561)],
      [ast |-> SrcTryNoThrow, expect |-> Num(1)],
      [ast |-> SrcGlobalSet, expect |-> Num(2)],
      [ast |-> SrcGlobalGet, expect |-> Num(5)],
      [ast |-> SrcGlobalSetLater, expect |-> Num(2)]>>

SourceOf(ast) == CHOOSE i \in DOMAIN Sources : Sources[i].ast = ast

Suites ==
    {"general", "persist", "closure", "functions", "instances", "pool", "control",
     "expressions"}

SourcesOf(s) ==
    CASE s = "general" -> 1..SourceOf(SrcBadInSwitch)
      [] s = "persist" -> {SourceOf(SrcVarX), SourceOf(SrcReadX), SourceOf(SrcFailAfterX),
                           SourceOf(SrcSecret)}
      [] s = "functions" -> SourceOf(SrcInnerTwice)..SourceOf(SrcLocalMath)
                            \cup {SourceOf(SrcReadX)}
      [] s = "instances" -> {SourceOf(SrcVarX), SourceOf(SrcReadX), SourceOf(SrcSecret)}
      [] s = "closure" -> {SourceOf(SrcCounters), SourceOf(SrcReturnClosed)}
      [] s = "control" -> SourceOf(SrcHoistTop)..SourceOf(SrcThrowInTry)
      [] s = "expressions" -> SourceOf(SrcForIn)..Len(Sources)
      [] OTHER -> {SourceOf(SrcCounters)}

ContextsOf(s) ==
    CASE s \in {"persist", "instances"} -> {EmptyMap, "secret" :> Num(42)}
      [] s = "functions" -> {"nothing" :> Null}
      [] s = "control" -> {"k" :> Num(1), "k" :> Num(2)}
      [] OTHER -> {EmptyMap}

MaxCalls == 3
MaxResets == 1
MaxSets == 1
MaxHeld == 2
BoundsToSet == {2, 300000}

MaxCallsOf(s) ==
    IF s \in {"general", "functions", "control", "expressions"} THEN MaxCalls - 1
    ELSE MaxCalls

\* the values the host adds to a ConstantPool of its own
MaxAdds == 3
PoolValues ==
    {Num(0), Num(1), Str("1"), Str("null"), Str("{}"), Str("undefined"), Bool(TRUE), Null,
     Undef, RegExpV("a", ""), RegExpV("b", "g"), FuncInfo("f", <<>>, 1, EmptyMap)}

(***************************************************************************)
(* State of one JSVMP instance, of its host, and of the object heap.       *)
(***************************************************************************)
VARIABLES
    suite,              \* the library of programs the host draws from
    initialized,        \* JSVMP.initialized
    compiler,           \* JSVMP.compiler: the Compiler instance
    held,               \* the Programs JSVMP.compile has returned to the host
    globals,            \* vm.globals
    thisTarget,         \* the target of the Proxy bound to the global 'this'
    stack,              \* vm.stack
    callStack,          \* vm.callStack
    pc,                 \* vm.pc
    bytecode,           \* vm.bytecode
    instructionCount,   \* vm.instructionCount
    maxInstructions,    \* vm.maxInstructions
    closureIdCounter,   \* vm.closureIdCounter
    heap,               \* the objects: functions, closure Maps, objects, arrays
    status,             \* "idle", "running", "halted", "error", "compileError"
    error,              \* the kind of the error thrown, "" when none
    result,             \* the value the last run/execute returned
    mode,               \* "run" or "execute": the facade method in progress
    vmId,               \* which VirtualMachine object JSVMP.vm is
    calls,              \* run/compile/execute calls made
    resets,             \* reset calls made
    sets,               \* setMaxInstructions calls made
    configured,         \* the bound last passed to setMaxInstructions, 0 if none
    context,            \* the context argument of the call in progress
    bound,              \* the user globals as the last run/execute left them
    onlyRuns,           \* no execute call since construction or the last reset
    preReset,           \* the user globals bound when reset was called
    active,             \* which of the host's two JSVMP instances the fields above are
    parked,             \* the fields of the host's other JSVMP instance
    pool,               \* a ConstantPool the host adds to directly
    added               \* the last add on pool: value, index returned, constants before

vars ==
    <<suite, initialized, compiler, held, globals, thisTarget, stack, callStack, pc,
      bytecode, instructionCount, maxInstructions, closureIdCounter, heap, status, error,
      result, mode, vmId, calls, resets, sets, configured, context, bound, onlyRuns,
      preReset, active, parked, pool, added>>

NoProgram == [src |-> 0, ins |-> <<>>, constants |-> <<>>, pending |-> {}]

userGlobals(g) == Without(g, DOMAIN setupBuiltins \cup {"this"})

\* the function objects a compilation has created are objects of the heap: the
\* Program refers to them from its constant pool
funcSlots(constants) == {i \in DOMAIN constants : constants[i].t = "func"}
slotRank(constants, i) == Cardinality({j \in funcSlots(constants) : j <= i})
slotOfRank(constants, r) == CHOOSE i \in funcSlots(constants) : slotRank(constants, i) = r

linkedConstants(constants, h) ==
    [i \in DOMAIN constants |->
        IF constants[i].t = "func" THEN Ref(Len(h) + slotRank(constants, i)) ELSE constants[i]]

linkedHeap(constants, h) ==
    h \o [r \in 1..Cardinality(funcSlots(constants)) |->
            LET f == constants[slotOfRank(constants, r)].v
            IN FnObject(f.name, f.params, f.startAddress, f.closureScope)]

ProgramOf(src, c, h) ==
    [src |-> src, ins |-> c.ins, constants |-> linkedConstants(c.pool.constants, h),
     pending |-> c.pending]

\* the fields of a JSVMP instance after construction, with its VirtualMachine
JSVMPNew(id) ==
    [initialized |-> FALSE, compiler |-> CompilerNew, globals |-> EmptyMap,
     thisTarget |-> EmptyMap, stack |-> <<>>, callStack |-> <<>>, pc |-> 0,
     bytecode |-> NoProgram, instructionCount |-> 0,
     maxInstructions |-> DefaultMaxInstructions, closureIdCounter |-> 0,
     status |-> "idle", error |-> "", result |-> Undef, mode |-> "", vmId |-> id,
     configured |-> 0, context |-> EmptyMap, bound |-> EmptyMap, onlyRuns |-> TRUE,
     preReset |-> {}]

NoAdd == [value |-> Undef, index |-> -1, before |-> <<>>, count |-> 0]

InitSuite(s) ==
    /\ suite = s
    /\ active = 1
    /\ parked = JSVMPNew(2)
    /\ pool = ConstantPoolNew
    /\ added = NoAdd
    /\ initialized = FALSE
    /\ compiler = CompilerNew
    /\ held = <<>>
    /\ globals = EmptyMap
    /\ thisTarget = EmptyMap
    /\ stack = <<>>
    /\ callStack = <<>>
    /\ pc = 0
    /\ bytecode = NoProgram
    /\ instructionCount = 0
    /\ maxInstructions = DefaultMaxInstructions
    /\ closureIdCounter = 0
    /\ heap = <<>>
    /\ status = "idle"
    /\ error = ""
    /\ result = Undef
    /\ mode = ""
    /\ vmId = 1
    /\ calls = 0
    /\ resets = 0
    /\ sets = 0
    /\ configured = 0
    /\ context = EmptyMap
    /\ bound = EmptyMap
    /\ onlyRuns = TRUE
    /\ preReset = {}

Init == InitSuite("general")

vmExecuteOnOldState(program, ctx, resetGlobals) ==
    /\ bytecode' = program
    /\ pc' = 0
    /\ stack' = stack
    /\ callStack' = callStack
    /\ instructionCount' = instructionCount
    /\ maxInstructions' = DefaultMaxInstructions
    /\ globals' = IF resetGlobals THEN ctx @@ Put(setupBuiltins, "this", GlobalThis)
                  ELSE ctx @@ globals
    /\ thisTarget' = IF resetGlobals THEN EmptyMap ELSE thisTarget
    /\ status' = "running"
    /\ error' = ""
    /\ context' = ctx

\* VirtualMachine.execute up to the dispatch loop
vmExecute(program, ctx, resetGlobals) ==
    /\ bytecode' = program
    /\ pc' = 0
    /\ stack' = <<>>
    /\ callStack' = <<>>
    /\ instructionCount' = 0
    /\ maxInstructions' = DefaultMaxInstructions
    /\ globals' = IF resetGlobals THEN ctx @@ Put(setupBuiltins, "this", GlobalThis)
                  ELSE ctx @@ globals
    /\ thisTarget' = IF resetGlobals THEN EmptyMap ELSE thisTarget
    /\ status' = "running"
    /\ error' = ""
    /\ context' = ctx

\* JSVMP.run after this.compiler.compile(ast, code) has left the compiler as c
runCompiled(src, ctx, c) ==
    /\ compiler' = c
    /\ IF c.ok
       THEN /\ heap' = linkedHeap(c.pool.constants, heap)
            /\ vmExecute(ProgramOf(src, c, heap), ctx, ~initialized)
            /\ mode' = "run"
       ELSE /\ status' = "compileError"
            /\ error' = "compile"
            /\ UNCHANGED <<heap, bytecode, pc, stack, callStack, instructionCount,
                           maxInstructions, globals, thisTarget, mode, context>>

\* JSVMP.run, up to the dispatch loop of vm.execute
Run(src, ctx) ==
    /\ status # "running"
    /\ calls < MaxCallsOf(suite)
    /\ calls' = calls + 1
    /\ runCompiled(src, ctx, compile(compiler, Sources[src].ast, src))
    /\ UNCHANGED <<suite, initialized, held, closureIdCounter, result, vmId, resets, sets,
                   configured, bound, onlyRuns, preReset, active, parked, pool, added>>

\* JSVMP.compile after this.compiler.compile(ast, code) has left the compiler as c
compileCompiled(src, c) ==
    /\ compiler' = c
    /\ IF c.ok
       THEN /\ heap' = linkedHeap(c.pool.constants, heap)
            /\ held' = Append(held, ProgramOf(src, c, heap))
            /\ status' = "idle"
            /\ error' = ""
       ELSE /\ status' = "compileError"
            /\ error' = "compile"
            /\ UNCHANGED <<heap, held>>

\* JSVMP.compile
CompileOnly(src) ==
    /\ status # "running"
    /\ calls < MaxCallsOf(suite)
    /\ Len(held) < MaxHeld
    /\ calls' = calls + 1
    /\ compileCompiled(src, compile(compiler, Sources[src].ast, src))
    /\ UNCHANGED <<suite, initialized, globals, thisTarget, stack, callStack, pc, bytecode,
                   instructionCount, maxInstructions, closureIdCounter, result, mode, vmId,
                   resets, sets, configured, context, bound, onlyRuns, preReset, active,
                   parked, pool, added>>

\* JSVMP.execute, up to the dispatch loop of vm.execute
Execute(h, ctx) ==
    /\ status # "running"
    /\ calls < MaxCallsOf(suite)
    /\ h \in DOMAIN held
    /\ calls' = calls + 1
    /\ vmExecute(held[h], ctx, TRUE)
    /\ mode' = "execute"
    /\ onlyRuns' = FALSE
    /\ UNCHANGED <<suite, initialized, compiler, held, closureIdCounter, heap, result, vmId,
                   resets, sets, configured, bound, preReset, active, parked, pool, added>>

\* JSVMP.reset: this.vm = new VirtualMachine(); this.initialized = false
Reset ==
    /\ status # "running"
    /\ resets < MaxResets
    /\ resets' = resets + 1
    /\ initialized' = FALSE
    /\ globals' = EmptyMap
    /\ thisTarget' = EmptyMap
    /\ stack' = <<>>
    /\ callStack' = <<>>
    /\ pc' = 0
    /\ bytecode' = NoProgram
    /\ instructionCount' = 0
    /\ maxInstructions' = DefaultMaxInstructions
    /\ closureIdCounter' = 0
    /\ vmId' = (IF vmId > parked.vmId THEN vmId ELSE parked.vmId) + 1
    /\ configured' = 0
    /\ bound' = EmptyMap
    /\ onlyRuns' = TRUE
    /\ preReset' = DOMAIN userGlobals(globals)
    /\ status' = "idle"
    /\ error' = ""
    /\ UNCHANGED <<suite, compiler, held, heap, result, mode, calls, sets, context, active,
                   parked, pool, added>>

\* JSVMP.setMaxInstructions -> vm.setMaxInstructions
SetMaxInstructions(n) ==
    /\ status # "running"
    /\ sets < MaxSets
    /\ sets' = sets + 1
    /\ maxInstructions' = n
    /\ configured' = n
    /\ UNCHANGED <<suite, initialized, compiler, held, globals, thisTarget, stack, callStack,
                   pc, bytecode, instructionCount, closureIdCounter, heap, status, error,
                   result, mode, vmId, calls, resets, context, bound, onlyRuns, preReset,
                   active, parked, pool, added>>

machine ==
    [globals |-> globals, thisTarget |-> thisTarget, stack |-> stack,
     callStack |-> callStack, pc |-> pc, heap |-> heap,
     closureIdCounter |-> closureIdCounter, vmId |-> vmId, err |-> ""]

instruction == bytecode.ins[pc + 1]

\* the rest of one iteration once executeInstruction has left the machine as m
stepExecuted(m) ==
    /\ globals' = m.globals
    /\ thisTarget' = m.thisTarget
    /\ stack' = m.stack
    /\ callStack' = m.callStack
    /\ heap' = m.heap
    /\ closureIdCounter' = m.closureIdCounter
    /\ bound' = IF m.err # "" \/ instruction.op = "HALT"
                THEN userGlobals(m.globals) ELSE bound
    /\ IF m.err # ""
       THEN /\ status' = "error"
            /\ error' = m.err
            /\ pc' = m.pc
            /\ UNCHANGED <<result, initialized>>
       ELSE /\ pc' = m.pc + 1
            /\ error' = ""
            /\ IF instruction.op = "HALT"
               THEN /\ status' = "halted"
                    /\ result' = IF Len(m.stack) > 0 THEN Top(m.stack) ELSE Undef
                    /\ initialized' = IF mode = "run" THEN TRUE ELSE initialized
               ELSE UNCHANGED <<status, result, initialized>>

\* one iteration of the dispatch loop of vm.execute, with what follows the loop
\* (the return, and in run the assignment to initialized) when it is the last
Step ==
    /\ status = "running"
    /\ pc >= 0 /\ pc < Len(bytecode.ins)
    /\ instructionCount' = instructionCount + 1
    /\ IF instructionCount + 1 > maxInstructions
       THEN /\ status' = "error"
            /\ error' = "budget"
            /\ bound' = userGlobals(globals)
            /\ UNCHANGED <<globals, thisTarget, stack, callStack, pc, heap,
                           closureIdCounter, result, initialized>>
       ELSE stepExecuted(executeInstruction(machine, instruction, bytecode.constants))
    /\ UNCHANGED <<suite, compiler, held, bytecode, maxInstructions, mode, vmId, calls,
                   resets, sets, configured, context, onlyRuns, preReset, active, parked,
                   pool, added>>

Next ==
    \/ \E src \in SourcesOf(suite), ctx \in ContextsOf(suite) : Run(src, ctx)
    \/ \E src \in SourcesOf(suite) : CompileOnly(src)
    \/ \E h \in 1..MaxHeld, ctx \in ContextsOf(suite) : Execute(h, ctx)
    \/ Reset
    \/ \E n \in BoundsToSet : SetMaxInstructions(n)
    \/ Step

Spec == Init /\ [][Next]_vars

InitPersist == InitSuite("persist")
SpecPersist == InitPersist /\ [][Next]_vars

InitClosure == InitSuite("closure")
SpecClosure == InitClosure /\ [][Next]_vars

InitFunctions == InitSuite("functions")
SpecFunctions == InitFunctions /\ [][Next]_vars

\* the fields of the JSVMP instance the host is calling
instance ==
    [initialized |-> initialized, compiler |-> compiler, globals |-> globals,
     thisTarget |-> thisTarget, stack |-> stack, callStack |-> callStack, pc |-> pc,
     bytecode |-> bytecode, instructionCount |-> instructionCount,
     maxInstructions |-> maxInstructions, closureIdCounter |-> closureIdCounter,
     status |-> status, error |-> error, result |-> result, mode |-> mode, vmId |-> vmId,
     configured |-> configured, context |-> context, bound |-> bound,
     onlyRuns |-> onlyRuns, preReset |-> preReset]

\* the host turns to its other JSVMP instance (const a = new JSVMP(), b = new JSVMP()):
\* every call is synchronous, so calls on the two interleave call by call.  The
\* object heap and the Programs the host holds belong to neither instance.
SwitchInstance ==
    /\ status # "running"
    /\ active' = 3 - active
    /\ parked' = instance
    /\ initialized' = parked.initialized
    /\ compiler' = parked.compiler
    /\ globals' = parked.globals
    /\ thisTarget' = parked.thisTarget
    /\ stack' = parked.stack
    /\ callStack' = parked.callStack
    /\ pc' = parked.pc
    /\ bytecode' = parked.bytecode
    /\ instructionCount' = parked.instructionCount
    /\ maxInstructions' = parked.maxInstructions
    /\ closureIdCounter' = parked.closureIdCounter
    /\ status' = parked.status
    /\ error' = parked.error
    /\ result' = parked.result
    /\ mode' = parked.mode
    /\ vmId' = parked.vmId
    /\ configured' = parked.configured
    /\ context' = parked.context
    /\ bound' = parked.bound
    /\ onlyRuns' = parked.onlyRuns
    /\ preReset' = parked.preReset
    /\ UNCHANGED <<suite, held, heap, calls, resets, sets, pool, added>>

NextInstances == Next \/ SwitchInstance

InitInstances == InitSuite("instances")
SpecInstances == InitInstances /\ [][NextInstances]_vars

\* ConstantPool.add called by the host on a pool of its own
PoolAdd(value) ==
    /\ added.count < MaxAdds
    /\ pool' = ConstantPoolAdd(pool, value)
    /\ added' = [value |-> value, index |-> ConstantPoolIndex(pool, value),
                 before |-> pool.constants, count |-> added.count + 1]
    /\ UNCHANGED <<suite, initialized, compiler, held, globals, thisTarget, stack, callStack,
                   pc, bytecode, instructionCount, maxInstructions, closureIdCounter, heap,
                   status, error, result, mode, vmId, calls, resets, sets, configured,
                   context, bound, onlyRuns, preReset, active, parked>>

NextPool == \E value \in PoolValues : PoolAdd(value)

InitPool == InitSuite("pool")
SpecPool == InitPool /\ [][NextPool]_vars

InitControl == InitSuite("control")
SpecControl == InitControl /\ [][Next]_vars

InitExpressions == InitSuite("expressions")
SpecExpressions == InitExpressions /\ [][Next]_vars

(***************************************************************************)
(* Properties.                                                             *)
(***************************************************************************)
Jumps == {"JMP", "JIF", "JNF"}

\* the function objects that a RET has returned: they carry a closure id
returnedFunctions == {i \in DOMAIN heap : heap[i].k = "fn" /\ heap[i].closureId # 0}

\* two function values returned by two invocations of the same enclosing function
sameInnerFunction(i, j) ==
    /\ i # j
    /\ heap[i].outer # 0
    /\ heap[i].outer = heap[j].outer
    /\ heap[i].startAddress = heap[j].startAddress

\* the step in progress is an instruction of the dispatch loop that completes
completes == status = "running" /\ instructionCount' = instructionCount + 1 /\ error' = ""

operandName == keyOf(bytecode.constants[instruction.arg + 1])

\* the returned function in which the instruction in progress runs, 0 when none
runningFunction ==
    IF Len(callStack) > 0 /\ callStack[Len(callStack)].currentFunction \in returnedFunctions
    THEN callStack[Len(callStack)].currentFunction ELSE 0

CountersExpected ==
    ("r1" :> Num(11)) @@ ("r2" :> Num(12)) @@ ("r3" :> Num(101)) @@ ("r4" :> Num(13)) @@
    ("r5" :> Num(102))

C1_IdsAndMapsDistinctOnOneVm ==
    \A i \in returnedFunctions, j \in returnedFunctions :
        (sameInnerFunction(i, j) /\ heap[i].vm = heap[j].vm)
            => /\ heap[i].closureId # heap[j].closureId
               /\ heap[i].env # heap[j].env

C1_StoreLeavesOthersAlone ==
    (completes /\ instruction.op = "STORE" /\ runningFunction # 0)
        => \A j \in returnedFunctions :
               j # runningFunction => heap'[heap[j].env] = heap[heap[j].env]

C1_CountersRun ==
    (status = "halted" /\ bytecode.src = SourceOf(SrcCounters))
        => \A r \in DOMAIN CountersExpected : Has(globals, r) /\ globals[r] = CountersExpected[r]

configuredBound == IF configured = 0 THEN DefaultMaxInstructions ELSE configured

\* C2: while an execute call is in progress its instruction counter has not passed
\* the configured bound: no instruction beyond the bound is executed (the budget
\* error ends the call when the counter first exceeds the bound).
C2_NoInstructionBeyondBound ==
    status = "running" => instructionCount <= configuredBound

\* C3: after setMaxInstructions(n), an iteration of the dispatch loop of a later
\* run/execute raises the budget error exactly when the instruction counter it has
\* incremented exceeds n.
C3_BudgetErrorExactlyAboveConfigured ==
    [][(status = "running" /\ configured # 0 /\ instructionCount' = instructionCount + 1)
          => ((error' = "budget") <=> (instructionCount' > configured))]_vars

\* a run call begins executing: the state after the prologue of vm.execute
runBegins == status # "running" /\ status' = "running" /\ mode' = "run"
executeBegins == status # "running" /\ status' = "running" /\ mode' = "execute"

\* C4: in a sequence of run calls with no reset in between, whatever the outcome of
\* the earlier calls, every global the earlier calls left bound is bound at the start
\* of a later run call, to the same value unless the call's context mentions it.
C4_GlobalsPersistAcrossRuns ==
    [][(runBegins /\ onlyRuns)
          => \A n \in DOMAIN bound :
                 /\ Has(globals', n)
                 /\ ~Has(context', n) => globals'[n] = bound[n]]_vars

\* C5: a global that an earlier run or execute call left bound is bound, hence
\* readable, when a later execute call on the instance begins (no reset in between).
C5_GlobalsPersistAcrossExecutes ==
    [][executeBegins => \A n \in DOMAIN bound : Has(globals', n)]_vars

\* C6: after reset(), a LOAD of a name that was a user global or context entry before
\* the reset, and that nothing has bound since, fails with the undefined-variable
\* error; and every built-in name is bound to its original value when a call runs.
C6_ResetUnbindsUserGlobals ==
    [][/\ (status = "running" /\ resets > 0 /\ instructionCount' = instructionCount + 1
             /\ instructionCount < maxInstructions /\ instruction.op = "LOAD"
             /\ operandName \in preReset /\ ~Has(globals, operandName)
             /\ frameWith(machine, operandName) = 0)
          => error' = "undefined-variable"
       /\ (status' = "running" /\ resets > 0)
          => \A b \in DOMAIN setupBuiltins : Has(globals', b)]_vars

lastStatementIsExpression(src) ==
    LET body == Sources[src].ast.program.body
    IN Len(body) > 0 /\ body[Len(body)].type = "ExpressionStatement"

\* C7: the value run/execute returns is the top of the operand stack when HALT is
\* executed, undefined when the stack is empty; and when the last top-level statement
\* is an expression statement it is the value of that expression.
C7_ResultIsTopOfStackAtHalt ==
    status = "halted"
        => /\ bytecode.ins[pc].op = "HALT"
           /\ result = (IF Len(stack) > 0 THEN stack[Len(stack)] ELSE Undef)
           /\ (lastStatementIsExpression(bytecode.src)
                 /\ Sources[bytecode.src].expect # NoValue)
              => result = Sources[bytecode.src].expect

C7_Witness ==
    /\ status = "halted"
    /\ bytecode.src = SourceOf(SrcLoop)
    /\ result = Num(6)
    /\ Len(stack) = 1

StackEffect ==
    [op \in {"PUSH", "DUP", "LOAD"} |-> 1]
    @@ [op \in {"POP", "STORE", "DECLARE", "JIF", "JNF", "GET_PROP", "GET_ELEM"} |-> -1]
    @@ [op \in BinaryOpcodes |-> -1]
    @@ [op \in UnaryOpcodes |-> 0]
    @@ [op \in {"SET_PROP", "SET_ELEM"} |-> -2]

\* C8: when an instruction with a defined stack effect completes, the height of the
\* operand stack has changed by exactly the effect's delta.
C8_StackEffect ==
    [][(completes /\ instruction.op \in DOMAIN StackEffect)
          => Len(stack') = Len(stack) + StackEffect[instruction.op]]_vars

jumpsResolved(program) ==
    /\ program.pending = {}
    /\ \A i \in DOMAIN program.ins :
           program.ins[i].op \in Jumps
               => program.ins[i].arg >= 0 /\ program.ins[i].arg < Len(program.ins)

\* C9: in every Program compile has returned, the operand of each JMP/JIF/JNF is the
\* index of an instruction of the Program, and no jump emitted with the placeholder
\* operand 0 is left unpatched.
C9_JumpTargetsResolved ==
    /\ \A h \in DOMAIN held : jumpsResolved(held[h])
    /\ jumpsResolved(bytecode)
    /\ compiler.ok => jumpsResolved(compiler)

C9_Witness ==
    \E h \in DOMAIN held :
        /\ held[h].src = SourceOf(SrcBreakContinue)
        /\ \E i \in DOMAIN held[h].ins : held[h].ins[i].op = "JMP" /\ held[h].ins[i].arg > i
        /\ \E i \in DOMAIN held[h].ins : held[h].ins[i].op = "JIF"

\* what a new Compiler instance makes of each source of the library
freshCompilation ==
    [src \in DOMAIN Sources |-> compile(CompilerNew, Sources[src].ast, src)]

\* C10: whatever the instance compiled before, a compilation that succeeds yields the
\* instruction sequence and the constant pool that a new Compiler instance yields for
\* the same source.
C10_CompileDeterministic ==
    (compiler.sourceCode # 0 /\ compiler.ok)
        => /\ compiler.ins = freshCompilation[compiler.sourceCode].ins
           /\ compiler.pool = freshCompilation[compiler.sourceCode].pool

\* a program with a break in a loop compiled right after a compilation that failed
C10_Witness ==
    /\ calls = 2
    /\ resets = 0
    /\ Len(held) = 1
    /\ bytecode = NoProgram
    /\ compiler.ok
    /\ compiler.sourceCode = SourceOf(SrcBreakContinue)

(***************************************************************************)
(* Constant pool.                                                          *)
(***************************************************************************)
Primitives == {"num", "str", "bool", "null", "undef"}

\* C11: after add(v) of a primitive v, whatever was added to the pool before,
\* get of the index add returned is v
C11_GetOfAddIsValue ==
    (added.count > 0 /\ added.value.t \in Primitives)
        => ConstantPoolGet(pool, added.index) = added.value

\* C12: add returns an index it had already handed out only for a value equal to
\* the one stored there, gives every function record a new index, and leaves
\* the constants stored before it as they were
C12_DedupOnlyOfEqualValues ==
    added.count > 0 =>
        /\ added.index < Len(added.before) => added.before[added.index + 1] = added.value
        /\ added.value.t = "func" => added.index = Len(added.before)
        /\ SubSeq(pool.constants, 1, Len(added.before)) = added.before

(***************************************************************************)
(* Functions: calls, returns, scoping.                                     *)
(***************************************************************************)
\* an iteration of the dispatch loop that is within the budget
dispatches ==
    /\ status = "running"
    /\ instructionCount' = instructionCount + 1
    /\ instructionCount < maxInstructions

topFrame == callStack[Len(callStack)]
callerFrame == callStack[Len(callStack) - 1]

\* the first call on a new instance was a run, on no globals but the context's
firstRun == calls = 1 /\ resets = 0 /\ mode = "run"

\* the compiler recorded name as a variable of a function scope enclosing func
enclosedName(func, name) ==
    Has(heap[func].closureScope, name) /\ heap[func].closureScope[name] >= 1

\* the running function is bound in the locals of the frame that called it
calledFromEnclosing ==
    /\ Len(callStack) >= 2
    /\ callerFrame.currentFunction # 0
    /\ \E n \in DOMAIN callerFrame.locals :
           callerFrame.locals[n] = Ref(topFrame.currentFunction)

\* C13: a LOAD executed by a function that was declared inside an enclosing function
\* and called from an invocation of it, of a name that is a local or parameter of
\* the enclosing function, pushes the value the name has in that invocation now.
C13_InnerReadsEnclosingInvocation ==
    [][(completes /\ instruction.op = "LOAD" /\ calledFromEnclosing
          /\ enclosedName(topFrame.currentFunction, operandName)
          /\ ~Has(topFrame.locals, operandName)
          /\ Has(callerFrame.locals, operandName))
          => Top(stack') = callerFrame.locals[operandName]]_vars

argCountOf == bytecode.constants[instruction.arg + 1].v
calleeDepth == IF instruction.op = "CALL_METHOD" THEN 2 ELSE 1

\* the instruction in progress is a call of a user function that completes
callsUserFunction ==
    /\ completes
    /\ instruction.op \in {"CALL", "CALL_METHOD", "NEW"}
    /\ IsUserFunction(heap, Top(stack))

\* C14: a CALL, CALL_METHOD or NEW of a user function pushes exactly one frame
\* and leaves the frames beneath as they were; a RET pops exactly the top frame,
\* resumes at the instruction after the call, and leaves the operand stack as it
\* was beneath the callee and its arguments at the call, plus one value; and
\* factorial(5) is 120.
C14_CallReturnDiscipline ==
    [][/\ callsUserFunction
          => /\ Len(callStack') = Len(callStack) + 1
             /\ SubSeq(callStack', 1, Len(callStack)) = callStack
             /\ stack' = PopN(stack, calleeDepth + argCountOf)
       /\ (completes /\ instruction.op = "RET" /\ Len(callStack) > 0)
          => /\ callStack' = SubSeq(callStack, 1, Len(callStack) - 1)
             /\ pc' = topFrame.returnAddress + 1
             /\ Len(stack') = Len(topFrame.base) + 1
             /\ SubSeq(stack', 1, Len(topFrame.base)) = topFrame.base
       /\ (status' = "halted" /\ firstRun /\ bytecode.src = SourceOf(SrcFactorial))
          => result' = Num(120)]_vars

\* the index of the parameter that the name n of params denotes: the last so named
paramIndex(params, n) ==
    CHOOSE j \in 1..Len(params) :
        params[j] = n /\ \A l \in 1..Len(params) : params[l] = n => l <= j

\* C15: when a call of a user function with k arguments completes, the new
\* frame binds the i-th parameter to the value of the i-th argument expression
\* (the i-th value beneath the callee, the arguments being compiled last first),
\* and to undefined when i > k; arguments beyond the parameters are bound to
\* nothing; a host function receives the arguments in the same order.
C15_ArgumentBinding ==
    [][/\ callsUserFunction
          => LET params == heap[Top(stack).v].params
                 locals == callStack'[Len(callStack')].locals
             IN \A n \in Range(params) :
                    /\ Has(locals, n)
                    /\ locals[n] = (IF paramIndex(params, n) <= argCountOf
                                    THEN Peek(stack, calleeDepth + paramIndex(params, n))
                                    ELSE Undef)
       /\ (status' = "halted" /\ firstRun
             /\ bytecode.src \in {SourceOf(SrcSub), SourceOf(SrcMissing), SourceOf(SrcFunc)})
          => result' = Sources[bytecode.src].expect]_vars

\* sub(10, 3, 99) has returned 7 and second(1) has read its unbound parameter
C15_Witness ==
    /\ status = "halted"
    /\ firstRun
    /\ \/ bytecode.src = SourceOf(SrcSub) /\ result = Num(7)
       \/ bytecode.src = SourceOf(SrcMissing) /\ result = Str("undefined75")

\* the names bound by the script: user globals, locals of the frames, and the
\* closure map of the running function
scriptBound ==
    DOMAIN userGlobals(globals)
        \cup UNION {DOMAIN callStack[i].locals : i \in DOMAIN callStack}
        \cup (IF Len(callStack) > 0 /\ topFrame.currentFunction # 0
                 /\ heap[topFrame.currentFunction].env # 0
              THEN DOMAIN heap[heap[topFrame.currentFunction].env].m ELSE {})

\* C16: a LOAD of a name found in no closure, no frame, not in globals and not
\* on the global this fails with the undefined-variable error and leaves the
\* stack as it was; and a LOAD that succeeds reads a built-in, a context entry
\* or a name the script has bound.
C16_LoadOnlyOfBoundNames ==
    [][(dispatches /\ instruction.op = "LOAD")
          => /\ (~closureHas(machine, operandName) /\ frameWith(machine, operandName) = 0
                   /\ ~Has(globals, operandName) /\ ~Has(thisTarget, operandName)
                   /\ operandName \notin ObjectPrototypeNames)
                => (error' = "undefined-variable" /\ stack' = stack)
             /\ error' = ""
                => operandName \in (DOMAIN setupBuiltins \cup {"this"} \cup DOMAIN context
                                      \cup scriptBound)]_vars

\* C17: on two JSVMP instances whose calls interleave (neither has been
\* reset), a LOAD on one of a name that is bound in the globals of the other (by
\* a declaration, an assignment or a context entry) and in no globals or frame of
\* its own raises the undefined-variable error; and a reset of one instance
\* leaves every field of the other unchanged.
C17_InstanceIsolation ==
    [][/\ (dispatches /\ instruction.op = "LOAD" /\ resets = 0
             /\ ~Has(globals, operandName) /\ frameWith(machine, operandName) = 0
             /\ Has(parked.globals, operandName)
             /\ operandName \notin DOMAIN setupBuiltins \cup {"this"})
          => error' = "undefined-variable"
       /\ (resets' = resets + 1) => parked' = parked]_vars

\* C18: a DIV whose divisor is zero completes: no error, one value in place of
\* the two operands, and execution goes on with the next instruction.
C18_DivByZeroCompletes ==
    [][(dispatches /\ instruction.op = "DIV" /\ Peek(stack, 1) = Num(0))
          => /\ error' = ""
             /\ Len(stack') = Len(stack) - 1
             /\ pc' = pc + 1]_vars

\* typeof value === 'object' && value !== null, for a value that is not a
\* function record
isObjectValue(x) ==
    \/ x.t \in {"regex", "gthis"}
    \/ x.t = "ref" /\ heap[x.v].k # "fn"
    \/ x.t = "host" /\ ~IsHostFunction(x)

\* C19: the RET that ends a constructor call completes and pushes the returned
\* value when that is a non-null object (a function record for a returned
\* function), and the new instance in every other case.
C19_ConstructorReturn ==
    [][(dispatches /\ instruction.op = "RET" /\ Len(callStack) > 0
          /\ topFrame.isConstructorCall)
          => /\ error' = ""
             /\ IF IsUserFunction(heap, Top(stack))
                THEN /\ IsUserFunction(heap', Top(stack'))
                     /\ heap'[Top(stack').v].startAddress = heap[Top(stack).v].startAddress
                ELSE Top(stack') = (IF isObjectValue(Top(stack)) THEN Top(stack)
                                    ELSE topFrame.newInstance)]_vars

\* names a frame holds as the invocation's own: the parameters of its function,
\* and what DECLARE has bound in it (a constructor frame also holds copies of
\* its function's closure entries, which are not its own)
ownNames(frame) ==
    Range(heap[frame.currentFunction].params)
        \cup (IF frame.isConstructorCall THEN {} ELSE DOMAIN frame.locals \ {"this"})

\* C20: inside a function, a LOAD of one of the invocation's own names pushes the
\* value bound in the current frame, and a STORE to it binds the value in the
\* current frame.
C20_OwnBindingWins ==
    [][(completes /\ Len(callStack) > 0 /\ topFrame.currentFunction # 0
          /\ instruction.op \in {"LOAD", "STORE"}
          /\ operandName \in ownNames(topFrame) /\ Has(topFrame.locals, operandName))
          => IF instruction.op = "LOAD"
             THEN Top(stack') = topFrame.locals[operandName]
             ELSE callStack'[Len(callStack)].locals[operandName] = Top(stack)]_vars

(***************************************************************************)
(* Control flow, stack discipline and scoping.                             *)
(***************************************************************************)
\* the names the statements of body declare as functions
declaredFunctions(body) ==
    {body[i].id.name : i \in {j \in DOMAIN body : body[j].type = "FunctionDeclaration"}}

\* the statements of the scope the instruction in progress belongs to: the
\* program's when no frame is active, else those of the body of the top-level
\* function declaration the running function was compiled from
scopeBody ==
    LET top == Sources[bytecode.src].ast.program.body
        decls == {j \in DOMAIN top :
                     /\ top[j].type = "FunctionDeclaration"
                     /\ Len(callStack) > 0
                     /\ topFrame.currentFunction # 0
                     /\ top[j].id.name = heap[topFrame.currentFunction].name}
    IN IF Len(callStack) = 0 THEN top
       ELSE IF decls = {} THEN <<>>
       ELSE top[CHOOSE j \in decls : TRUE].body.body

\* C21: a LOAD of a name that a function declaration of the scope in progress
\* (the top level, or the body of the running function) declares never raises the
\* undefined-variable error, wherever in the scope the declaration stands.
C21_Hoisting ==
    [][(dispatches /\ instruction.op = "LOAD"
          /\ operandName \in declaredFunctions(scopeBody))
          => error' # "undefined-variable"]_vars

\* C22: when run or execute has returned normally (HALT was executed), the call
\* stack is empty: getState().callStackDepth is 0.
C22_CallStackEmptyAtHalt == status = "halted" => Len(callStack) = 0

\* the height of the operand stack between the statements of the scope in
\* progress: what the call left beneath the callee and its arguments, nothing at
\* the top level
statementHeight == IF Len(callStack) > 0 THEN Len(topFrame.base) ELSE 0

\* a jump to an earlier address is taken: the next iteration of a loop begins
loopsBack == completes /\ instruction.op \in Jumps /\ pc' <= pc

\* C23: the statements of a loop's body leave the operand stack as they found
\* it, whether or not the body is a block: each time control returns to the head
\* of a loop the stack has the height it has between statements.
C23_StackDiscipline == [][loopsBack => Len(stack') = statementHeight]_vars

\* the instruction in progress is the jump of a switch case test, and it is
\* taken: only compileSwitchStatement emits a forward JIF right after an EQ
entersCase ==
    /\ completes
    /\ instruction.op = "JIF"
    /\ pc > 0
    /\ bytecode.ins[pc].op = "EQ"
    /\ instruction.arg > pc
    /\ pc' = instruction.arg

lastStatementIsSwitch(src) ==
    LET body == Sources[src].ast.program.body
    IN Len(body) > 0 /\ body[Len(body)].type = "SwitchStatement"

\* C24: when a case test matches, control enters the case body with the stack
\* at the height it has between statements (the discriminant is not on it); and
\* a program that ends with a switch whose case bodies hold no expression
\* statement halts with an empty stack, whichever path the switch took.
C24_SwitchStackNeutral ==
    [][/\ entersCase => Len(stack') = statementHeight
       /\ (status' = "halted" /\ bytecode.src = SourceOf(SrcSwitchPaths))
          => stack' = <<>>]_vars

\* the operand of the jump a break or continue was compiled to
exitTarget(c, e) == c.ins[e.address + 1].arg

\* C25: in every compilation that succeeds, the jump of each break goes to the
\* first instruction after the innermost loop or switch statement that encloses
\* the break, and the jump of each continue to the continue point of the
\* innermost loop that encloses the continue.
C25_BreakContinueTargets ==
    (compiler.ok /\ compiler.sourceCode # 0)
        => \A e \in compiler.exits :
               /\ e.of # 0
               /\ e.kind = "break" => exitTarget(compiler, e) = compiler.ends[e.of]
               /\ e.kind = "continue" => exitTarget(compiler, e) = compiler.continuePoints[e.of]

\* the sources of the library that hold a break with no enclosing loop or switch,
\* a continue with no enclosing loop, or a node of a kind compileNode has no case
\* for (WithStatement, ObjectPattern)
NotCompilable ==
    {SourceOf(SrcStrayBreak), SourceOf(SrcStrayContinue), SourceOf(SrcWith),
     SourceOf(SrcDestructure)}

emitted(ins, opcodes) == \E i \in DOMAIN ins : ins[i].op \in opcodes

\* C26: the compilation of a source that holds a stray break, a stray continue
\* or a node of an unsupported kind fails, and no Program is returned for it; no
\* Program holds a BREAK or CONTINUE instruction, and no run fails with the
\* error of executeBreak/executeContinue.
C26_CompileTimeFailure ==
    /\ compiler.sourceCode \in NotCompilable => ~compiler.ok
    /\ bytecode.src \notin NotCompilable
    /\ \A h \in DOMAIN held : held[h].src \notin NotCompilable
    /\ ~emitted(compiler.ins, {"BREAK", "CONTINUE"})
    /\ error # "break-continue"

\* the closure map of the function executing in the current frame, empty when no
\* frame is active or the function has none
currentClosure ==
    IF Len(callStack) > 0 /\ topFrame.currentFunction # 0
       /\ heap[topFrame.currentFunction].env # 0
    THEN heap[heap[topFrame.currentFunction].env].m ELSE EmptyMap

\* the frames whose locals hold name
framesWith(name) == {i \in DOMAIN callStack : Has(callStack[i].locals, name)}

\* name is a property of the global this value
onGlobalThis(name) ==
    /\ Has(globals, "this")
    /\ globals["this"] = GlobalThis
    /\ Has(thisTarget, name) \/ name \in ObjectPrototypeNames

\* C27: a LOAD pushes the value of the first hit among the closure map of the
\* function executing in the current frame, the locals of the frames from the
\* innermost to the outermost, the globals map, and the properties of the global
\* this value; it fails with the undefined-variable error when none has the name.
C27_LoadOrder ==
    [][(dispatches /\ instruction.op = "LOAD")
          => IF Has(currentClosure, operandName)
             THEN stack' = Append(stack, currentClosure[operandName])
             ELSE IF framesWith(operandName) # {}
             THEN \E i \in framesWith(operandName) :
                      /\ \A j \in framesWith(operandName) : j <= i
                      /\ stack' = Append(stack, callStack[i].locals[operandName])
             ELSE IF Has(globals, operandName)
             THEN stack' = Append(stack, globals[operandName])
             ELSE IF onGlobalThis(operandName)
             THEN error' = "" /\ Len(stack') = Len(stack) + 1
             ELSE error' = "undefined-variable"]_vars

\* f(5) has read its parameter n from the closure map of f, which holds the
\* global n = 1, though the frame binds n to 5; and a name found nowhere but on
\* the global this has been read
C27_Witness ==
    /\ status = "halted"
    /\ firstRun
    /\ \/ bytecode.src = SourceOf(SrcShadowParam) /\ result = Num(1)
       \/ bytecode.src = SourceOf(SrcReadConstructor) /\ result.t = "host"

\* the innermost frame whose locals hold name
innermostWith(name) ==
    CHOOSE i \in framesWith(name) : \A j \in framesWith(name) : j <= i

\* C28: a STORE pops one value and binds the name to it in exactly one place,
\* leaving every other binding, of this and of every other name, as it was: in the
\* closure map of the current frame's function when that holds the name, else in
\* the innermost frame whose locals hold it, else in globals.
C28_StoreWritesOneBinding ==
    [][(dispatches /\ instruction.op = "STORE")
          => /\ error' = ""
             /\ stack' = Pop(stack)
             /\ thisTarget' = thisTarget
             /\ IF Has(currentClosure, operandName)
                THEN /\ heap' = [heap EXCEPT ![heap[topFrame.currentFunction].env].m =
                                                  Put(@, operandName, Top(stack))]
                     /\ callStack' = callStack
                     /\ globals' = globals
                ELSE IF framesWith(operandName) # {}
                THEN /\ callStack' = [callStack EXCEPT ![innermostWith(operandName)].locals =
                                                           Put(@, operandName, Top(stack))]
                     /\ heap' = heap
                     /\ globals' = globals
                ELSE /\ globals' = Put(globals, operandName, Top(stack))
                     /\ heap' = heap
                     /\ callStack' = callStack]_vars

\* in g the assignment v = v + 1 has written the closure entry of v and neither
\* the local v = 2 nor the global v = 1
C28_Witness ==
    /\ status = "halted"
    /\ firstRun
    /\ bytecode.src = SourceOf(SrcShadowVar)
    /\ result = Num(21)

\* C29: a DECLARE pops one value and binds the name to it, in the locals of the
\* current frame when there is one and in globals otherwise, and goes on to the
\* next instruction, whatever the kind of the value.
C29_DeclareBindsEveryValue ==
    [][(dispatches /\ instruction.op = "DECLARE")
          => /\ error' = ""
             /\ stack' = Pop(stack)
             /\ IF Len(callStack) > 0
                THEN /\ Len(callStack') = Len(callStack)
                     /\ Has(callStack'[Len(callStack)].locals, operandName)
                     /\ callStack'[Len(callStack)].locals[operandName] = Top(stack)
                     /\ globals' = globals
                ELSE /\ Has(globals', operandName)
                     /\ globals'[operandName] = Top(stack)
                     /\ callStack' = callStack]_vars

\* the step is a RET whose return value is a user function
returnsFunction ==
    /\ dispatches
    /\ instruction.op = "RET"
    /\ Len(callStack) > 0
    /\ IsUserFunction(heap, Top(stack))

\* the locals of the returning frame that are neither this nor arguments, nor a
\* parameter of the returned function, nor bound to a host or a user function
dataLocals(frame, func) ==
    {varName \in DOMAIN frame.locals :
        /\ varName \notin {"this", "arguments"}
        /\ varName \notin Range(heap[func].params)
        /\ ~IsHostFunction(frame.locals[varName])
        /\ ~IsUserFunction(heap, frame.locals[varName])}

\* new is old as deepCopyValue returns it: a new array or object with the
\* elements of old, and old itself for every other value
copyOf(old, new) ==
    IF KindOf(heap, old) \in {"arr", "obj"}
    THEN new.t = "ref" /\ new.v \notin DOMAIN heap /\ heap'[new.v] = heap[old.v]
    ELSE new = old

\* C30: a RET that returns a user function pushes a new function record whose
\* closure map is a new map holding exactly the data locals of the returning frame
\* (not this, arguments, the parameters of the returned function, or names bound
\* to host or user functions), each with its value at the return, arrays and
\* objects copied one level deep.
C30_CaptureOnReturn ==
    [][returnsFunction
          => /\ error' = ""
             /\ Len(stack') > 0
             /\ IsUserFunction(heap', Top(stack'))
             /\ Top(stack').v \notin DOMAIN heap
             /\ heap'[Top(stack').v].env \in DOMAIN heap' \ DOMAIN heap
             /\ DOMAIN heap'[heap'[Top(stack').v].env].m = dataLocals(topFrame, Top(stack).v)
             /\ \A varName \in dataLocals(topFrame, Top(stack).v) :
                    copyOf(topFrame.locals[varName],
                           heap'[heap'[Top(stack').v].env].m[varName])]_vars

(***************************************************************************)
(* Expressions, exceptions and iteration.                                  *)
(***************************************************************************)
\* address holds the jump of a logical expression: only compileLogicalExpression
\* emits DUP, a conditional jump and POP in a row
isSkipJump(address) ==
    /\ address >= 1
    /\ address + 2 <= Len(bytecode.ins)
    /\ bytecode.ins[address + 1].op \in {"JNF", "JIF"}
    /\ bytecode.ins[address].op = "DUP"
    /\ bytecode.ins[address + 2].op = "POP"

\* the addresses of the right operand of the logical expression whose jump is at
\* address
rightOperand(address) == (address + 2)..(bytecode.ins[address + 1].arg - 1)

\* the jump of a logical expression executes with a, the value of the left
\* operand, on top of the stack: b is skipped for a falsy a under && (JNF) and for
\* a truthy a under || (JIF)
skipsRight(a) == IF instruction.op = "JNF" THEN ~Truthy(a) ELSE Truthy(a)

\* C31: for a && b the instructions of b are executed only when a is truthy, for
\* a || b only when a is falsy; one value is left on the stack, the value of a
\* when b is skipped and the value of b otherwise.
C31_ShortCircuit ==
    /\ [][(completes /\ isSkipJump(pc))
             => /\ Len(stack) >= 2
                /\ stack[Len(stack) - 1] = Top(stack)
                /\ stack' = Pop(stack)
                /\ pc' = (IF skipsRight(Top(stack)) THEN instruction.arg ELSE pc + 1)]_vars
    /\ [][(completes /\ pc > 0 /\ isSkipJump(pc - 1))
             => /\ instruction.op = "POP"
                /\ stack' = Pop(stack)
                /\ pc' = pc + 1]_vars
    /\ [][\A address \in 1..(Len(bytecode.ins) - 2) :
              (/\ completes
               /\ isSkipJump(address)
               /\ Len(callStack') = Len(callStack)
               /\ pc \notin rightOperand(address)
               /\ pc' \in rightOperand(address))
                  => pc = address + 1]_vars
    /\ [](status = "halted" /\ bytecode.src = SourceOf(SrcShortCircuit)
            => /\ Has(context, "k") /\ Has(globals, "a") /\ Has(globals, "b")
               /\ globals["a"] = (IF context["k"] = Num(1) THEN Num(5) ELSE Bool(FALSE))
               /\ globals["b"] = (IF context["k"] = Num(1) THEN Bool(TRUE) ELSE Num(10))
               /\ globals["n"] = (IF context["k"] = Num(1) THEN Num(5) ELSE Num(10))
               /\ Len(stack) = 1)

\* both operands of a || b have been evaluated, and a && b has kept its left one
C31_Witness ==
    /\ status = "halted"
    /\ bytecode.src = SourceOf(SrcShortCircuit)
    /\ globals["a"] = Bool(FALSE)
    /\ globals["b"] = Num(10)

\* the instruction in progress lies between a TRY and the CATCH that follows it
inTryWithHandler ==
    \E t \in 1..pc, h \in (pc + 2)..Len(bytecode.ins) :
        /\ bytecode.ins[t].op = "TRY"
        /\ bytecode.ins[h].op = "CATCH"
        /\ \A i \in (t + 1)..(h - 1) : bytecode.ins[i].op \notin {"TRY", "CATCH", "END_TRY"}

\* C32: TRY, CATCH, FINALLY and END_TRY only advance pc: the operand stack, the
\* call stack, globals and the heap stay as they are; and a THROW ends the
\* execution with a failure wherever it is executed, also inside a try block that
\* has a handler: control never passes to the handler.
C32_NoUnwinding ==
    /\ [][(dispatches /\ instruction.op \in {"TRY", "CATCH", "FINALLY", "END_TRY"})
             => /\ status' = "running"
                /\ error' = ""
                /\ pc' = pc + 1
                /\ UNCHANGED <<stack, callStack, globals, thisTarget, heap>>]_vars
    /\ [][(dispatches /\ instruction.op = "THROW")
             => /\ status' = "error"
                /\ error' = "thrown"
                /\ pc' = pc
                /\ UNCHANGED <<callStack, globals>>]_vars

\* throw r inside the try block that has a handler has ended the execution: r is
\* still 2, the handler's r = 3 has not run
C32_Witness ==
    /\ status = "error"
    /\ error = "thrown"
    /\ bytecode.src = SourceOf(SrcThrowInTry)
    /\ inTryWithHandler
    /\ globals["r"] = Num(2)

\* the programs whose result lists, in the order of execution, the keys a for-in
\* loop has bound its variable to (and those of the loop inside it or of the
\* function it calls)
ForInSources == {SourceOf(SrcForIn), SourceOf(SrcForInNested), SourceOf(SrcForInCall)}

\* C33: a for-in loop executes its body once per key of its iteree, in key order,
\* with the loop variable bound to that key, also when the body holds another
\* for-in loop or calls a function that runs one: the execution halts and the keys
\* recorded are those of every iteration.
C33_ForIn ==
    (bytecode.src \in ForInSources /\ status \in {"halted", "error"})
        => /\ status = "halted"
           /\ result = Sources[bytecode.src].expect

\* the number of operands an instruction takes from the operand stack
Operands ==
    [op \in {"POP", "DUP", "STORE", "DECLARE", "JIF", "JNF", "RET", "THROW"} |-> 1]
    @@ [op \in UnaryOpcodes |-> 1]
    @@ [op \in BinaryOpcodes |-> 2]
    @@ [op \in {"GET_PROP", "GET_ELEM"} |-> 2]
    @@ [op \in {"SET_PROP", "SET_ELEM"} |-> 3]

\* C34: an instruction that needs more operands than the operand stack holds
\* fails with a runtime error: it binds nothing and pushes no result.
C34_StackUnderflowIsAnError ==
    [][(dispatches /\ instruction.op \in DOMAIN Operands
          /\ Len(stack) < Operands[instruction.op])
          => /\ status' = "error"
             /\ error' # ""
             /\ Len(stack') <= Len(stack)
             /\ globals' = globals]_vars

(***************************************************************************)
(* Programs executed again, closures returned again, machine state.        *)
(***************************************************************************)
\* an execute call on the Program of function f() { return secret; } f() has
\* ended as an execution of a newly compiled copy ends on new globals with the
\* same context: with the context's value of secret, or with the
\* undefined-variable error when the context has none
endsAsFirstExecution ==
    IF Has(context, "secret")
    THEN status = "halted" /\ result = context["secret"]
    ELSE status = "error" /\ error = "undefined-variable"

\* C35: execute does not modify the Program it runs: an execution of a Program
\* that has been executed before, with another context, ends as the execution of
\* a newly compiled copy of the same source ends.
C35_ExecuteLeavesProgram ==
    (mode = "execute" /\ bytecode.src = SourceOf(SrcSecret) /\ status \in {"halted", "error"})
        => endsAsFirstExecution

\* the closure map of function record func, empty when it has none
closureOf(h, func) == IF h[func].env # 0 THEN h[h[func].env].m ELSE EmptyMap

\* C36: a RET that returns a function value that has captured variables already
\* hands on a function that still holds them: every entry of the closure map of
\* the value returned is an entry of the closure map of the value pushed, so a
\* call of it continues from the captured state.
C36_ReturnKeepsCaptured ==
    [][(returnsFunction /\ closureOf(heap, Top(stack).v) # EmptyMap)
          => /\ error' = ""
             /\ IsUserFunction(heap', Top(stack'))
             /\ \A varName \in DOMAIN closureOf(heap, Top(stack).v) :
                    /\ Has(closureOf(heap', Top(stack').v), varName)
                    /\ closureOf(heap', Top(stack').v)[varName]
                           = closureOf(heap, Top(stack).v)[varName]]_vars

\* C37: every run or execute call begins with pc = 0, an empty operand stack, an
\* empty call stack and an instruction count of 0, however the call before it on
\* the instance ended (the stack and call stack of a failed execution stay as the
\* failure left them until then); the budget error is raised only by the count
\* of the call in progress.
C37_CleanMachineState ==
    /\ [][(runBegins \/ executeBegins)
             => /\ pc' = 0
                /\ stack' = <<>>
                /\ callStack' = <<>>
                /\ instructionCount' = 0]_vars
    /\ [](error = "budget" => instructionCount > maxInstructions)

\* a call has begun on the instance whose only call before it ran
\* function f() { return secret; } f() without secret and failed inside f, the
\* frame of f still on the call stack: f is the one global that call left
C37_Witness ==
    /\ status = "running"
    /\ instructionCount = 0
    /\ calls = 2
    /\ resets = 0
    /\ DOMAIN bound = {"f"}
    /\ pc = 0
    /\ Len(stack) = 0
    /\ Len(callStack) = 0

\* the programs that update a property or an element by a compound assignment
\* or by ++, and whose result holds the values left in the object, the array
\* and the variable the key expression increments
MemberUpdateSources == {SourceOf(SrcMemberUpdate), SourceOf(SrcMemberKeyOnce)}

\* C38: a compound assignment or ++/-- on a member expression evaluates the
\* object and the key once, sets the property to (old value op e) and leaves one
\* value on the stack: the execution halts, the property, the element and the
\* variable incremented by the key expression hold the values of one evaluation.
C38_MemberUpdate ==
    (bytecode.src \in MemberUpdateSources /\ status \in {"halted", "error"})
        => /\ status = "halted"
           /\ result = Sources[bytecode.src].expect

\* C39: when the try block completes (a THROW would have ended the execution),
\* the catch clause has no effect: from CATCH control passes to the finalizer or
\* to the end of the try statement with the operand stack and every binding as
\* they were, so neither the parameter is bound nor the handler's body executed.
C39_CatchSkipped ==
    [][(dispatches /\ instruction.op = "CATCH")
          => /\ error' = ""
             /\ pc' > pc
             /\ pc' < Len(bytecode.ins)
             /\ bytecode.ins[pc' + 1].op \in {"FINALLY", "END_TRY"}
             /\ UNCHANGED <<stack, callStack, globals, heap>>]_vars

\* the programs in which top-level code and a declared function read and assign
\* a global variable declared before the function
SharedGlobalSources == {SourceOf(SrcGlobalSet), SourceOf(SrcGlobalGet)}

\* C40: a global variable has one binding, shared by top-level code and declared
\* functions: what a function assigns to a global declared before it is what a
\* later top-level LOAD yields, and what top-level code assigns after the
\* declaration is what a later call of the function LOADs.
C40_GlobalSharedWithFunctions ==
    (bytecode.src \in SharedGlobalSources /\ status \in {"halted", "error"} /\ firstRun)
        => /\ status = "halted"
           /\ result = Sources[bytecode.src].expect

=============================================================================
